---- MODULE Spec2Model ----
(***************************************************************************)
(* A model of fetch_sensortower.py: the Sensor Tower rate limiter, the     *)
(* retrying fetch client st_get, the metadata lookup cache with its worker *)
(* pool, and the phases of main.                                           *)
(*                                                                         *)
(* Time is counted in ticks of 100 ms of time.monotonic().                 *)
(***************************************************************************)
EXTENDS Integers, Sequences, FiniteSets, TLC

\* ------------------------------------------------------------------ bounds
NRateThreads == 2    \* threads that call _rate_limited_wait (SpecRate)
NGetThreads == 1     \* threads that call st_get (SpecGet)
MaxWaits == 2        \* direct _rate_limited_wait calls per thread (SpecRate)
MaxIdle == 3         \* ticks the clock may run ahead of the last grant
MaxIds == 2          \* length of an id list passed to parallel_lookup_apps
MaxTotalIds == 3     \* ids passed to parallel_lookup_apps in one run (SpecLookup)
PoolExtra == 1       \* uncached ids beyond the pool size (SpecPool)

\* ------------------------------------------------------- program constants
ST_MIN_INTERVAL == 2 \* 0.2 s, in ticks of 100 ms
MaxAttempts == 5     \* for attempt in range(5)

NoThread == 0
MainThread == -1     \* the thread that calls parallel_lookup_apps
MAX_WORKERS == 5     \* ThreadPoolExecutor(max_workers=5)

\* the identifiers the ranking lists can hold
LookupIds == {"A", "B"}
\* str(item.get("app_id", "")) of an item without app_id
AllIds == LookupIds \cup {""}
RateThreads == 1 .. NRateThreads
GetThreads == 1 .. NGetThreads
Threads == RateThreads \cup GetThreads

VARIABLES
  clock,          \* time.monotonic(), in ticks
  st_last_call,   \* _st_last_call
  st_rate_lock,   \* holder of _st_rate_lock, NoThread when free
  prev_grant,     \* history: the value of _st_last_call before the last grant
  n_grants,       \* history: number of grants recorded so far
  job,            \* what each thread runs: "wait" or "st_get"
  pc,             \* each thread's position
  now,            \* local `now` of _rate_limited_wait
  wake,           \* the time at which the thread's time.sleep may return
  waits,          \* completed direct _rate_limited_wait calls of the thread
  attempt,        \* st_get: the loop variable `attempt`
  status,         \* st_get: outcome of the current attempt's request
  backoff,        \* st_get: seconds of the time.sleep after the current attempt
  result,         \* st_get: the returned value
  grants,         \* history: rate-limiter grants obtained by the st_get call
  requests,       \* history: HTTP requests sent by the st_get call
  app_cache,      \* _app_cache: identifier -> record
  cache_lock,     \* holder of _cache_lock, NoThread when free
  net_count,      \* history: unified-app resolutions started, per identifier
  writer,         \* history: the task that wrote each cache entry last
  dpc,            \* parallel_lookup_apps: position of the calling thread
  app_ids,        \* parallel_lookup_apps: the argument
  idx,            \* parallel_lookup_apps: position of the partition loop
  results,        \* parallel_lookup_apps: `results`
  uncached_ids,   \* parallel_lookup_apps: `uncached_ids`
  calls_made,     \* parallel_lookup_apps calls that have returned
  ids_passed,     \* history: ids passed to parallel_lookup_apps so far
  collect_log,    \* history: identifiers in the order as_completed yielded them
  task,           \* the lookup_app tasks submitted to the executor
  mpc,            \* main: the phase the main thread is in
  step,           \* main: position inside the phase (which list is next)
  api_data,       \* main: what the four ranking queries returned
  app_infos,      \* main: the mapping parallel_lookup_apps returned
  rows,           \* main: download_rows, growth_rows, delta_rows, advertiser_rows
  summarizer,     \* main: state of each list's batch_summarize_descriptions task
  tables,         \* the storage sink: rows held by each table
  agg_item,       \* aggregate_entities: its argument `item`
  agg_out,        \* aggregate_entities: the value it returned
  env,            \* the environment variables that are set
  sum_pc,         \* batch_summarize_descriptions: where the call is
  sum_rows,       \* batch_summarize_descriptions: `rows`
  sum_rows0,      \* history: `rows` as they were passed
  sum_result,     \* batch_summarize_descriptions: `result`, what call_gemini returned
  sum_summaries,  \* batch_summarize_descriptions: `summaries`
  sum_k,          \* batch_summarize_descriptions: position of the loop over summaries
  sum_stage,      \* history: the parse stage that assigned `summaries` last
  sum_tried,      \* history: the parse stages that were run
  up_pc,          \* upsert_rows: where the call is
  up_rows,        \* upsert_rows: `rows`
  up_i,           \* upsert_rows: `i`, the start of the current batch
  up_j,           \* upsert_rows: position of `row` in the rejected batch
  total_inserted, \* upsert_rows: `total_inserted`
  up_table,       \* the rows the table holds
  up_server,      \* what the storage service refuses during the call
  up_log,         \* history: the requests upsert_rows sent, with their outcome
  prog,           \* startup: the program whose main runs
  start_pc,       \* startup: where main is
  requests_sent,  \* startup: the services a request was sent to so far
  exit_status,    \* startup: the status the process ended with, -1 while it runs
  summarized,     \* startup: whether a summarizer got a reply from the model
  gm_pc,          \* call_gemini: where the call is
  gm_attempt,     \* call_gemini: the loop variable `attempt`
  gm_net,         \* what the model service answers to each request of the call
  gm_log,         \* history: the requests and sleeps of the call, in order
  gm_ret,         \* call_gemini: the value it returned
  p4_got,         \* history: how future.result() of each list's task ended
  p4_calls,       \* history: the lists upsert_rows was called for, in order
  rs_pc,          \* lookup_app on its own: where the call is
  rs_data,        \* lookup_app on its own: `data`, what the unified call returned
  rs_calls,       \* history: the st_get calls of the resolution, in order
  ph_pc,          \* fetch_producthunt_top.main: where the run is
  ph_products,    \* fetch_producthunt_top.main: `products`
  ph_table,       \* the rows of product_hunt_top_product on the server
  ph_old,         \* history: the rows of the table when the run started
  ph_log,         \* history: the requests of the run and their replies, in order
  rss_pc,         \* generate_rss_xml: where the call is
  rss_products,   \* generate_rss_xml: `products`
  rss_items       \* generate_rss_xml: the item elements of the channel, in document order

rateVars == <<clock, st_last_call, st_rate_lock, prev_grant, n_grants>>
thrVars == <<job, pc, now, wake, waits>>
getVars == <<attempt, status, backoff, result, grants, requests>>
netVars == <<rateVars, thrVars, getVars>>
cacheVars == <<app_cache, cache_lock, net_count, writer>>
dispVars == <<dpc, app_ids, idx, results, uncached_ids, calls_made, ids_passed, collect_log>>
lookupVars == <<cacheVars, dispVars, task>>
mainVars == <<mpc, step, api_data, app_infos, rows, summarizer, tables>>
aggVars == <<agg_item, agg_out>>
sumVars ==
  <<env, sum_pc, sum_rows, sum_rows0, sum_result, sum_summaries, sum_k, sum_stage, sum_tried>>
upVars == <<up_pc, up_rows, up_i, up_j, total_inserted, up_table, up_server, up_log>>
startVars == <<prog, start_pc, requests_sent, exit_status, summarized>>
gmVars == <<gm_pc, gm_attempt, gm_net, gm_log, gm_ret>>
p4Vars == <<p4_got, p4_calls>>
rsVars == <<rs_pc, rs_data, rs_calls>>
phVars == <<ph_pc, ph_products, ph_table, ph_old, ph_log>>
rssVars == <<rss_pc, rss_products, rss_items>>
tailVars == <<gmVars, p4Vars, rsVars, phVars, rssVars>>
unitVars == <<aggVars, sumVars, upVars, startVars, tailVars>>
vars == <<netVars, lookupVars, mainVars, unitVars>>

\* --------------------------------------------------------- rate limiter
\* time.monotonic() advances.  Idle time beyond MaxIdle after the last grant
\* changes nothing the limiter can observe, so the clock is not run further.
Tick ==
  /\ UNCHANGED <<lookupVars, mainVars, unitVars>>
  /\ clock - st_last_call < MaxIdle
  /\ clock' = clock + 1
  /\ UNCHANGED <<st_last_call, st_rate_lock, prev_grant, n_grants, thrVars, getVars>>

\* `with _st_rate_lock:` blocks until the lock is free.
RateLockIgnored == TRUE

RateLockFree == st_rate_lock = NoThread

RateAcquire(t) ==
  /\ UNCHANGED <<lookupVars, mainVars, unitVars>>
  /\ pc[t] = "rl_enter"
  /\ RateLockFree
  /\ st_rate_lock' = t
  /\ pc' = [pc EXCEPT ![t] = "rl_now"]
  /\ UNCHANGED <<clock, st_last_call, prev_grant, n_grants, job, now, wake, waits, getVars>>

\* now = time.monotonic(); elapsed = now - _st_last_call;
\* if elapsed < ST_MIN_INTERVAL: time.sleep(ST_MIN_INTERVAL - elapsed)
SleepFor(elapsed) == ST_MIN_INTERVAL - elapsed

RateReadNow(t) ==
  /\ UNCHANGED <<lookupVars, mainVars, unitVars>>
  /\ pc[t] = "rl_now"
  /\ now' = [now EXCEPT ![t] = clock]
  /\ LET elapsed == clock - st_last_call
     IN IF elapsed < ST_MIN_INTERVAL
          THEN /\ wake' = [wake EXCEPT ![t] = clock + SleepFor(elapsed)]
               /\ pc' = [pc EXCEPT ![t] = "rl_sleep"]
          ELSE /\ wake' = wake
               /\ pc' = [pc EXCEPT ![t] = "rl_record"]
  /\ UNCHANGED <<rateVars, job, waits, getVars>>

\* time.sleep(d) returns once at least d has elapsed.
RateWake(t) ==
  /\ UNCHANGED <<lookupVars, mainVars, unitVars>>
  /\ pc[t] = "rl_sleep"
  /\ clock >= wake[t]
  /\ pc' = [pc EXCEPT ![t] = "rl_record"]
  /\ UNCHANGED <<rateVars, job, now, wake, waits, getVars>>

\* _st_last_call = time.monotonic()
RateRecord(t) ==
  /\ UNCHANGED <<lookupVars, mainVars, unitVars>>
  /\ pc[t] = "rl_record"
  /\ prev_grant' = st_last_call
  /\ st_last_call' = clock
  /\ n_grants' = n_grants + 1
  /\ grants' = [grants EXCEPT ![t] = @ + 1]
  /\ pc' = [pc EXCEPT ![t] = "rl_release"]
  /\ UNCHANGED <<clock, st_rate_lock, job, now, wake, waits,
                 attempt, status, backoff, result, requests>>

\* leaving the `with` block releases the lock; the call returns to its caller
RateRelease(t) ==
  /\ UNCHANGED <<lookupVars, mainVars, unitVars>>
  /\ pc[t] = "rl_release"
  /\ st_rate_lock' = NoThread
  /\ IF job[t] = "wait"
       THEN /\ pc' = [pc EXCEPT ![t] = "idle"]
            /\ waits' = [waits EXCEPT ![t] = @ + 1]
       ELSE /\ pc' = [pc EXCEPT ![t] = "sg_request"]
            /\ waits' = waits
  \* the locals `now` and `elapsed` end with the call
  /\ now' = [now EXCEPT ![t] = 0]
  /\ wake' = [wake EXCEPT ![t] = 0]
  /\ UNCHANGED <<clock, st_last_call, prev_grant, n_grants, job, getVars>>

\* a thread calls _rate_limited_wait() directly
CallWait(t) ==
  /\ UNCHANGED <<lookupVars, mainVars, unitVars>>
  /\ job[t] = "wait"
  /\ pc[t] = "idle"
  /\ waits[t] < MaxWaits
  /\ pc' = [pc EXCEPT ![t] = "rl_enter"]
  /\ UNCHANGED <<rateVars, job, now, wake, waits, getVars>>

\* _app_cache = {}, _cache_lock free, no parallel_lookup_apps call under way
InitLookupState ==
  /\ app_cache = <<>>
  /\ cache_lock = NoThread
  /\ net_count = [id \in AllIds |-> 0]
  /\ writer = <<>>
  /\ dpc = "idle"
  /\ app_ids = <<>>
  /\ idx = 0
  /\ results = <<>>
  /\ uncached_ids = <<>>
  /\ calls_made = 0
  /\ ids_passed = 0
  /\ collect_log = <<>>
  /\ task = <<>>

\* ------------------------------------------------------------ main: state
\* the four ranking lists, in the order main fetches and builds them
ListNames == <<"downloads", "growth", "delta", "advertisers">>
Lists == {ListNames[i] : i \in 1 .. 4}

\* the table each list is written to
TableOf ==
  [downloads |-> "download_rank_7d", growth |-> "download_percent_rank_7d",
   advertisers |-> "advertiser_rank_7d", delta |-> "download_delta_rank_7d"]
TableNames == {TableOf[n] : n \in Lists}

Unfetched == [kind |-> "unfetched"]

NoItem == <<>>
NotComputed == [computed |-> FALSE]

\* main has not started
InitMainPhases ==
  /\ mpc = "start"
  /\ step = 0
  /\ api_data = [n \in Lists |-> Unfetched]
  /\ app_infos = <<>>
  /\ rows = [n \in Lists |-> <<>>]
  /\ summarizer = [n \in Lists |-> "none"]
  /\ tables = [t \in TableNames |-> <<>>]

EnvNames == {"SENSORTOWER_API_KEY", "SUPABASE_URL", "SUPABASE_SERVICE_ROLE_KEY", "GEMINI_API_KEY"}

\* aggregate_entities is not being called
InitAggIdle ==
  /\ agg_item = NoItem
  /\ agg_out = NotComputed

\* batch_summarize_descriptions is not being called on its own
InitSumIdle ==
  /\ env = EnvNames
  /\ sum_pc = "idle"
  /\ sum_rows = <<>>
  /\ sum_rows0 = <<>>
  /\ sum_result = [kind |-> "none"]
  /\ sum_summaries = [t |-> "list", v |-> <<>>]
  /\ sum_k = 0
  /\ sum_stage = 0
  /\ sum_tried = {}

\* upsert_rows is not being called on its own
InitUpIdle ==
  /\ up_pc = "idle"
  /\ up_rows = <<>>
  /\ up_i = 0
  /\ up_j = 0
  /\ total_inserted = 0
  /\ up_table = <<>>
  /\ up_server = [delete_ok |-> TRUE, bad_rows |-> {}, bad_batches |-> {}]
  /\ up_log = <<>>

\* the start of main is not looked at on its own
InitStartIdle ==
  /\ prog = "sensortower"
  /\ start_pc = "idle"
  /\ requests_sent = {}
  /\ exit_status = -1
  /\ summarized = FALSE

\* call_gemini is not being called on its own
InitGmIdle ==
  /\ gm_pc = "idle"
  /\ gm_attempt = 0
  /\ gm_net = <<>>
  /\ gm_log = <<>>
  /\ gm_ret = [kind |-> "none"]

\* phases 4 and 5 are not looked at on their own
InitP4Idle ==
  /\ p4_got = [n \in Lists |-> "none"]
  /\ p4_calls = <<>>

\* lookup_app is not being called on its own
InitRsIdle ==
  /\ rs_pc = "idle"
  /\ rs_data = [kind |-> "unset"]
  /\ rs_calls = <<>>

\* fetch_producthunt_top is not running
InitPhIdle ==
  /\ ph_pc = "idle"
  /\ ph_products = <<>>
  /\ ph_table = <<>>
  /\ ph_old = <<>>
  /\ ph_log = <<>>

\* generate_rss_xml is not running
InitRssIdle ==
  /\ rss_pc = "idle"
  /\ rss_products = <<>>
  /\ rss_items = <<>>

InitTailIdle ==
  /\ InitGmIdle
  /\ InitP4Idle
  /\ InitRsIdle
  /\ InitPhIdle
  /\ InitRssIdle

\* main has not started and no function is being called on its own
InitMainState ==
  /\ InitAggIdle
  /\ InitSumIdle
  /\ InitUpIdle
  /\ InitStartIdle
  /\ InitTailIdle
  /\ InitMainPhases

InitRate ==
  /\ clock \in 0 .. MaxIdle
  /\ st_last_call = 0
  /\ st_rate_lock = NoThread
  /\ prev_grant = 0
  /\ n_grants = 0
  /\ pc = [t \in Threads |-> "idle"]
  /\ now = [t \in Threads |-> 0]
  /\ wake = [t \in Threads |-> 0]
  /\ waits = [t \in Threads |-> 0]
  /\ attempt = [t \in Threads |-> 0]
  /\ status = [t \in Threads |-> [code |-> -1, body |-> "none"]]
  /\ backoff = [t \in Threads |-> 0]
  /\ result = [t \in Threads |-> "unset"]
  /\ grants = [t \in Threads |-> 0]
  /\ requests = [t \in Threads |-> 0]

InitWait ==
  /\ InitRate
  /\ InitMainState
  /\ InitLookupState
  /\ job = [t \in Threads |-> IF t \in RateThreads THEN "wait" ELSE "none"]

NextRate ==
  \/ Tick
  \/ \E t \in Threads : CallWait(t)
  \/ \E t \in Threads : RateAcquire(t)
  \/ \E t \in Threads : RateReadNow(t)
  \/ \E t \in Threads : RateWake(t)
  \/ \E t \in Threads : RateRecord(t)
  \/ \E t \in Threads : RateRelease(t)

SpecRate == InitWait /\ [][NextRate]_vars

\* ------------------------------------------------------------------ st_get
Payloads == {"json1", "json2"}

\* What one requests.get can produce: a 200 with a JSON body, a 200 whose body
\* resp.json() cannot parse, a 429, another 4xx, a 5xx, or no response at all
\* (a transport exception, code 0).
Responses ==
  {[code |-> 200, body |-> p] : p \in Payloads}
    \cup {[code |-> 200, body |-> "unparseable"],
          [code |-> 429, body |-> "error"],
          [code |-> 404, body |-> "error"],
          [code |-> 500, body |-> "error"],
          [code |-> 0, body |-> "exception"]}

NoResponse == [code |-> -1, body |-> "none"]

LastAttempt == MaxAttempts - 1

\* (variant: resp.json() is called outside the try block)
DispositionNoCatch(r, att) ==
  IF r.code = 200
    THEN IF r.body \in Payloads
           THEN [do |-> "return", secs |-> 0]
           ELSE [do |-> "raise", secs |-> 0]
    ELSE IF r.code = 429
           THEN [do |-> "sleep", secs |-> 10 * (att + 1)]
           ELSE IF att < LastAttempt
                  THEN [do |-> "sleep", secs |-> IF r.code = 0 THEN 5 ELSE 3]
                  ELSE [do |-> "continue", secs |-> 0]

\* The body of the try block and its except clause, for the response r of
\* attempt number att (0-based): what the iteration does next.
Disposition(r, att) ==
  IF r.code = 200
    THEN IF r.body \in Payloads
           THEN [do |-> "return", secs |-> 0]
           \* resp.json() raises; `except Exception` catches it
           ELSE IF att < LastAttempt
                  THEN [do |-> "sleep", secs |-> 5]
                  ELSE [do |-> "continue", secs |-> 0]
    ELSE IF r.code = 429
           THEN [do |-> "sleep", secs |-> 10 * (att + 1)]
           ELSE IF r.code = 0
                  THEN IF att < LastAttempt
                         THEN [do |-> "sleep", secs |-> 5]
                         ELSE [do |-> "continue", secs |-> 0]
                  ELSE IF att < LastAttempt
                         THEN [do |-> "sleep", secs |-> 3]
                         ELSE [do |-> "continue", secs |-> 0]

\* a thread calls st_get(path, params)
CallGet(t) ==
  /\ UNCHANGED <<lookupVars, mainVars, unitVars>>
  /\ job[t] = "st_get"
  /\ pc[t] = "idle"
  /\ pc' = [pc EXCEPT ![t] = "sg_loop"]
  /\ attempt' = [attempt EXCEPT ![t] = 0]
  /\ UNCHANGED <<rateVars, job, now, wake, waits, status, backoff, result, grants, requests>>

\* (variant: the rate limiter is consulted for the first attempt only)
SgLoopWaitOnce(t) ==
  /\ UNCHANGED <<lookupVars, mainVars, unitVars>>
  /\ pc[t] = "sg_loop"
  /\ IF attempt[t] < MaxAttempts
       THEN /\ pc' = [pc EXCEPT ![t] = IF attempt[t] = 0 THEN "rl_enter" ELSE "sg_request"]
            /\ status' = [status EXCEPT ![t] = NoResponse]
            /\ backoff' = [backoff EXCEPT ![t] = 0]
            /\ result' = result
       ELSE /\ pc' = [pc EXCEPT ![t] = "done"]
            /\ result' = [result EXCEPT ![t] = "None"]
            /\ UNCHANGED <<status, backoff>>
  /\ UNCHANGED <<rateVars, job, now, wake, waits, attempt, grants, requests>>

\* for attempt in range(5): try: _rate_limited_wait() ... ; return None
SgLoop(t) ==
  /\ UNCHANGED <<lookupVars, mainVars, unitVars>>
  /\ pc[t] = "sg_loop"
  /\ IF attempt[t] < MaxAttempts
       THEN /\ pc' = [pc EXCEPT ![t] = "rl_enter"]
            /\ status' = [status EXCEPT ![t] = NoResponse]
            /\ backoff' = [backoff EXCEPT ![t] = 0]
            /\ result' = result
       ELSE /\ pc' = [pc EXCEPT ![t] = "done"]
            /\ result' = [result EXCEPT ![t] = "None"]
            /\ UNCHANGED <<status, backoff>>
  /\ UNCHANGED <<rateVars, job, now, wake, waits, attempt, grants, requests>>

\* resp = requests.get(...) and the branch taken on its outcome
SgRequest(t) ==
  /\ UNCHANGED <<lookupVars, mainVars, unitVars>>
  /\ pc[t] = "sg_request"
  /\ \E r \in Responses :
       LET d == Disposition(r, attempt[t])
       IN /\ requests' = [requests EXCEPT ![t] = @ + 1]
          /\ status' = [status EXCEPT ![t] = r]
          /\ backoff' = [backoff EXCEPT ![t] = d.secs]
          /\ CASE d.do = "return" ->
                    /\ result' = [result EXCEPT ![t] = r.body]
                    /\ pc' = [pc EXCEPT ![t] = "done"]
                    /\ attempt' = attempt
               [] d.do = "sleep" ->
                    /\ pc' = [pc EXCEPT ![t] = "sg_backoff"]
                    /\ UNCHANGED <<result, attempt>>
               [] d.do = "continue" ->
                    /\ pc' = [pc EXCEPT ![t] = "sg_loop"]
                    /\ attempt' = [attempt EXCEPT ![t] = @ + 1]
                    /\ result' = result
               [] OTHER ->
                    \* an exception leaves st_get
                    /\ pc' = [pc EXCEPT ![t] = "raised"]
                    /\ UNCHANGED <<result, attempt>>
  /\ UNCHANGED <<rateVars, job, now, wake, waits, grants>>

\* the time.sleep of a backoff returns and the loop goes to its next
\* iteration.  Backoffs last seconds; they are recorded in `backoff` and not
\* timed against the model's clock, which only runs MaxIdle past a grant.
SgWake(t) ==
  /\ UNCHANGED <<lookupVars, mainVars, unitVars>>
  /\ pc[t] = "sg_backoff"
  /\ pc' = [pc EXCEPT ![t] = "sg_loop"]
  /\ attempt' = [attempt EXCEPT ![t] = @ + 1]
  /\ UNCHANGED <<rateVars, job, now, wake, waits, status, backoff, result, grants, requests>>

InitGet ==
  /\ InitRate
  /\ InitMainState
  /\ InitLookupState
  /\ job = [t \in Threads |-> IF t \in GetThreads THEN "st_get" ELSE "none"]

NextGet ==
  \/ Tick
  \/ \E t \in Threads : CallGet(t)
  \/ \E t \in Threads : SgLoop(t)
  \/ \E t \in Threads : RateAcquire(t)
  \/ \E t \in Threads : RateReadNow(t)
  \/ \E t \in Threads : RateWake(t)
  \/ \E t \in Threads : RateRecord(t)
  \/ \E t \in Threads : RateRelease(t)
  \/ \E t \in Threads : SgRequest(t)
  \/ \E t \in Threads : SgWake(t)

SpecGet == InitGet /\ [][NextGet]_vars

\* ------------------------------------------------------- lookup_app: data
\* dict.get(key, default)
Get(d, k, default) == IF k \in DOMAIN d THEN d[k] ELSE default

SixFields ==
  {"name", "icon_url", "publisher", "description", "ios_store_url", "android_store_url"}

\* the record lookup_app returns when the unified request fails
SentinelFourFields ==
  [name |-> "Unknown", icon_url |-> "", publisher |-> "Unknown", description |-> ""]

Sentinel ==
  [name |-> "Unknown", icon_url |-> "", publisher |-> "Unknown", description |-> "",
   ios_store_url |-> "", android_store_url |-> ""]

\* What the unified-app endpoint holds for an identifier: one app with an
\* Android and an iOS sub-app, one app without a name, icon or unified
\* publisher and with an Android sub-app only, and apps without sub-apps.
UnifiedCatalogue(id) ==
  CASE id = "A" ->
         [name |-> "Alpha", icon_url |-> "http://icons/alpha",
          unified_publisher_name |-> "Acme", publisher_name |-> "Acme Ltd",
          sub_apps |-> <<[os |-> "android", id |-> "com.alpha", name |-> "Alpha Droid"],
                         [os |-> "ios", id |-> "1001", name |-> "Alpha iOS"],
                         [os |-> "ios", id |-> "1002", name |-> "Alpha iOS JP"]>>]
    [] id = "B" ->
         [name |-> "", publisher_name |-> "Bolt",
          sub_apps |-> <<[os |-> "android", id |-> "com.beta", name |-> "Beta"]>>]
    [] OTHER ->
         [name |-> "Gamma", icon_url |-> "http://icons/gamma",
          unified_publisher_name |-> "Gee", sub_apps |-> <<>>]

\* What a platform endpoint holds for a sub-app identifier.
PlatformCatalogue(sub_id) ==
  CASE sub_id = "1001" ->
         [description |->
            [type |-> "dict",
             value |-> [app_summary |-> " ", subtitle |-> "Alpha subtitle",
                        short_description |-> "", full_description |-> "<p>Alpha full</p>"]]]
    [] sub_id = "com.beta" ->
         [description |-> [type |-> "dict", value |-> [full_description |-> "<b>Beta</b>  full"]]]
    [] OTHER ->
         [description |-> [type |-> "str", value |-> "plain text"]]

\* What st_get can return for the unified request of an identifier: None,
\* a payload that is not a dict, the app's data, or data whose sub_apps is
\* null (iterating it raises TypeError).
UnifiedAnswers(id) ==
  {[kind |-> "none"], [kind |-> "list"],
   [kind |-> "dict", data |-> UnifiedCatalogue(id)],
   [kind |-> "badsubs", data |-> [name |-> "Broken"]]}

PlatformAnswers(sub_id) ==
  {[kind |-> "none"], [kind |-> "dict", data |-> PlatformCatalogue(sub_id)]}

\* name = data.get("name", ""); if not name: the first sub-app's name or "Unknown"
NameOf(data) ==
  LET name == Get(data, "name", "")
      sub_apps == Get(data, "sub_apps", <<>>)
  IN IF name # "" THEN name
     ELSE IF sub_apps # <<>> THEN Get(sub_apps[1], "name", "Unknown")
     ELSE "Unknown"

\* next((sa for sa in sub_apps if sa.get("os") == os), None), as an index (0: None)
FirstSub(sub_apps, os) ==
  LET hits == {i \in 1 .. Len(sub_apps) : Get(sub_apps[i], "os", "") = os}
  IN IF hits = {} THEN 0 ELSE CHOOSE i \in hits : \A j \in hits : i <= j

\* the store URL loop: the first sub-app of the platform that has an id
FirstSubWithId(sub_apps, os) ==
  LET hits == {i \in 1 .. Len(sub_apps) :
                 Get(sub_apps[i], "os", "") = os /\ Get(sub_apps[i], "id", "") # ""}
  IN IF hits = {} THEN 0 ELSE CHOOSE i \in hits : \A j \in hits : i <= j

StoreUrl(sub_apps, os, prefix) ==
  LET i == FirstSubWithId(sub_apps, os)
  IN IF i = 0 THEN "" ELSE prefix \o sub_apps[i].id

\* the record built from the unified data, before the description is known
BuildResult(data) ==
  LET sub_apps == Get(data, "sub_apps", <<>>)
  IN [name |-> NameOf(data),
      icon_url |-> Get(data, "icon_url", ""),
      publisher |-> Get(data, "unified_publisher_name", Get(data, "publisher_name", "Unknown")),
      description |-> "",
      ios_store_url |-> StoreUrl(sub_apps, "ios", "https://apps.apple.com/app/id"),
      android_store_url |->
        StoreUrl(sub_apps, "android", "https://play.google.com/store/apps/details?id=")]

\* (variant: the Android sub-app is preferred)
TargetSubAndroidFirst(data) ==
  LET sub_apps == Get(data, "sub_apps", <<>>)
      android_sub == FirstSub(sub_apps, "android")
  IN IF android_sub # 0 THEN android_sub ELSE FirstSub(sub_apps, "ios")

\* target_sub = ios_sub or android_sub, as an index into sub_apps (0: None)
TargetSub(data) ==
  LET sub_apps == Get(data, "sub_apps", <<>>)
      ios_sub == FirstSub(sub_apps, "ios")
  IN IF ios_sub # 0 THEN ios_sub ELSE FirstSub(sub_apps, "android")

\* the sub-app id the platform request is made for, "" when none is made
PlatformTarget(data) ==
  LET i == TargetSub(data)
  IN IF i = 0 THEN "" ELSE Get(Get(data, "sub_apps", <<>>)[i], "id", "")

\* s[:500]
Truncate500(s) == IF Len(s) <= 500 THEN s ELSE "<first 500 characters>"

\* re.sub(r'<[^>]+>', ' ', s), re.sub(r'\s+', ' ', s), strip(): on the texts
\* the catalogue holds
CleanHtml(s) ==
  CASE s = "<p>Alpha full</p>" -> "Alpha full"
    [] s = "<b>Beta</b>  full" -> "Beta full"
    [] OTHER -> s

\* (value or "").strip(): on the texts the catalogue holds
Strip(s) == IF s = " " THEN "" ELSE s

\* the description chosen from a platform payload; "" when it gives none.
\* A JSON value is held with its type: a dict or a str.
DescriptionOf(platform_data) ==
  LET desc_obj == Get(platform_data, "description", [type |-> "dict", value |-> [none |-> ""]])
  IN IF desc_obj.type = "dict"
       THEN LET app_summary == Strip(Get(desc_obj.value, "app_summary", ""))
                subtitle == Strip(Get(desc_obj.value, "subtitle", ""))
                short_desc == Strip(Get(desc_obj.value, "short_description", ""))
                full_desc == Strip(Get(desc_obj.value, "full_description", ""))
            IN IF app_summary # "" THEN Truncate500(app_summary)
               ELSE IF subtitle # "" THEN subtitle
               ELSE IF short_desc # "" THEN Truncate500(short_desc)
               ELSE IF full_desc # "" THEN Truncate500(CleanHtml(full_desc))
               ELSE ""
       ELSE IF desc_obj.type = "str" THEN Truncate500(desc_obj.value)
       ELSE ""

\* --------------------------------------------------- lookup_app: the steps
NoAnswer == [kind |-> "unset"]
NoRecord == [none |-> ""]

\* a lookup_app call submitted to the executor for identifier aid
\* (prior is history: what the calls for the same identifier that had
\* already returned when this call began had returned, and whether their
\* unified request had failed)
NewTask(aid) ==
  [aid |-> aid, pc |-> "queued", data |-> NoAnswer, plat |-> NoAnswer,
   res |-> NoRecord, ret |-> NoRecord, raised |-> FALSE, collected |-> FALSE,
   prior |-> {}]

Tasks == DOMAIN task

Running(i) == task[i].pc \notin {"queued", "finished"}

\* `with _cache_lock:` blocks until the lock is free
CacheLockFree == cache_lock = NoThread

\* (variant: a queued call begins although every worker is busy)
TaskStartUnbounded(i) ==
  /\ task[i].pc = "queued"
  /\ \A j \in Tasks : j < i => task[j].pc # "queued"
  /\ task' = [task EXCEPT ![i].pc = "start"]
  /\ UNCHANGED <<netVars, mainVars, unitVars, cacheVars, dispVars>>

\* a worker thread of the pool takes the next queued call
TaskStart(i) ==
  /\ task[i].pc = "queued"
  /\ \A j \in Tasks : j < i => task[j].pc # "queued"
  /\ Cardinality({j \in Tasks : Running(j)}) < MAX_WORKERS
  /\ task' = [task EXCEPT
               ![i].pc = "start",
               ![i].prior = {[ret |-> task[j].ret,
                              failed |-> task[j].data.kind \in {"none", "list"}] :
                             j \in {k \in Tasks : /\ task[k].aid = task[i].aid
                                                  /\ task[k].pc = "finished"
                                                  /\ ~task[k].raised}}]
  /\ UNCHANGED <<netVars, mainVars, unitVars, cacheVars, dispVars>>

\* with _cache_lock: (the cache check)
LkAcquireForCheck(i) ==
  /\ task[i].pc = "start"
  /\ CacheLockFree
  /\ cache_lock' = i
  /\ task' = [task EXCEPT ![i].pc = "check"]
  /\ UNCHANGED <<netVars, mainVars, unitVars, app_cache, net_count, writer, dispVars>>

\* if app_id_str in _app_cache: return _app_cache[app_id_str].copy()
LkCheck(i) ==
  /\ task[i].pc = "check"
  /\ IF task[i].aid \in DOMAIN app_cache
       THEN task' = [task EXCEPT ![i].pc = "finished", ![i].ret = app_cache[task[i].aid]]
       ELSE task' = [task EXCEPT ![i].pc = "unified"]
  /\ cache_lock' = NoThread
  /\ UNCHANGED <<netVars, mainVars, unitVars, app_cache, net_count, writer, dispVars>>

\* data = st_get("/v1/unified/apps/<id>", {}) is called
LkUnifiedBegin(i) ==
  /\ task[i].pc = "unified"
  /\ task' = [task EXCEPT ![i].pc = "unified_wait"]
  /\ net_count' = [net_count EXCEPT ![task[i].aid] = @ + 1]
  /\ UNCHANGED <<netVars, mainVars, unitVars, app_cache, cache_lock, writer, dispVars>>

\* st_get returns; the record is built from the unified data
LkUnifiedEnd(i) ==
  /\ task[i].pc = "unified_wait"
  /\ \E a \in UnifiedAnswers(task[i].aid) :
       CASE a.kind \in {"none", "list"} ->
              task' = [task EXCEPT ![i].pc = "store", ![i].data = a, ![i].res = Sentinel]
         [] a.kind = "badsubs" ->
              \* for sa in sub_apps: TypeError leaves lookup_app
              task' = [task EXCEPT ![i].pc = "finished", ![i].data = a, ![i].raised = TRUE]
         [] OTHER ->
              task' = [task EXCEPT
                         ![i].pc = IF PlatformTarget(a.data) # "" THEN "platform" ELSE "store",
                         ![i].data = a,
                         ![i].res = BuildResult(a.data)]
  /\ UNCHANGED <<netVars, mainVars, unitVars, cacheVars, dispVars>>

\* platform_data = st_get("/v1/<platform>/apps/<sub_id>", {}) is called
LkPlatformBegin(i) ==
  /\ task[i].pc = "platform"
  /\ task' = [task EXCEPT ![i].pc = "platform_wait"]
  /\ UNCHANGED <<netVars, mainVars, unitVars, cacheVars, dispVars>>

\* st_get returns; the description is taken from the platform data
LkPlatformEnd(i) ==
  /\ task[i].pc = "platform_wait"
  /\ \E a \in PlatformAnswers(PlatformTarget(task[i].data.data)) :
       task' = [task EXCEPT
                  ![i].pc = "store",
                  ![i].plat = a,
                  ![i].res = IF a.kind = "dict"
                               THEN [@ EXCEPT !.description = DescriptionOf(a.data)]
                               ELSE @]
  /\ UNCHANGED <<netVars, mainVars, unitVars, cacheVars, dispVars>>

\* (variant: the write-back is done without taking _cache_lock)
LkWriteUnlocked(i) ==
  /\ task[i].pc = "store"
  /\ task' = [task EXCEPT ![i].pc = "write"]
  /\ UNCHANGED <<netVars, mainVars, unitVars, cacheVars, dispVars>>

\* with _cache_lock: (the write-back)
LkAcquireForWrite(i) ==
  /\ task[i].pc = "store"
  /\ CacheLockFree
  /\ cache_lock' = i
  /\ task' = [task EXCEPT ![i].pc = "write"]
  /\ UNCHANGED <<netVars, mainVars, unitVars, app_cache, net_count, writer, dispVars>>

\* _app_cache[app_id_str] = result; return result.copy()
LkWrite(i) ==
  /\ task[i].pc = "write"
  /\ app_cache' = (task[i].aid :> task[i].res) @@ app_cache
  /\ writer' = (task[i].aid :> <<calls_made, i>>) @@ writer
  /\ cache_lock' = NoThread
  /\ task' = [task EXCEPT ![i].pc = "finished", ![i].ret = task[i].res]
  /\ UNCHANGED <<netVars, mainVars, unitVars, net_count, dispVars>>

\* ------------------------------------------------- parallel_lookup_apps
\* parallel_lookup_apps(ids) is called: results = {}, uncached_ids = []
PlCall(ids) ==
  /\ app_ids' = ids
  /\ idx' = 1
  /\ results' = <<>>
  /\ uncached_ids' = <<>>
  /\ task' = <<>>
  /\ dpc' = "pl_loop"
  /\ ids_passed' = ids_passed + Len(ids)
  /\ collect_log' = <<>>
  /\ UNCHANGED <<netVars, unitVars, cacheVars, calls_made>>

\* for aid in app_ids: with _cache_lock:
PlAcquire ==
  /\ dpc = "pl_loop"
  /\ idx <= Len(app_ids)
  /\ CacheLockFree
  /\ cache_lock' = MainThread
  /\ dpc' = "pl_check"
  /\ UNCHANGED <<netVars, mainVars, unitVars, app_cache, net_count, writer, app_ids, idx, results,
                 uncached_ids, calls_made, ids_passed, collect_log, task>>

\* (variant: every identifier is treated as uncached)
PlCheckNoPartition ==
  /\ dpc = "pl_check"
  /\ uncached_ids' = Append(uncached_ids, app_ids[idx])
  /\ cache_lock' = NoThread
  /\ idx' = idx + 1
  /\ dpc' = "pl_loop"
  /\ UNCHANGED <<netVars, mainVars, unitVars, app_cache, net_count, writer, app_ids, results,
                 calls_made, ids_passed, collect_log, task>>

\* if aid_str in _app_cache: results[aid_str] = copy else: uncached_ids.append
PlCheck ==
  /\ dpc = "pl_check"
  /\ LET aid == app_ids[idx]
     IN IF aid \in DOMAIN app_cache
          THEN /\ results' = (aid :> app_cache[aid]) @@ results
               /\ uncached_ids' = uncached_ids
          ELSE /\ uncached_ids' = Append(uncached_ids, aid)
               /\ results' = results
  /\ cache_lock' = NoThread
  /\ idx' = idx + 1
  /\ dpc' = "pl_loop"
  /\ UNCHANGED <<netVars, mainVars, unitVars, app_cache, net_count, writer, app_ids, calls_made, ids_passed, collect_log, task>>

\* if uncached_ids: one executor.submit(lookup_app, aid) per uncached id;
\* otherwise return results
PlSubmit ==
  /\ dpc = "pl_loop"
  /\ idx > Len(app_ids)
  /\ IF uncached_ids # <<>>
       THEN /\ task' = [i \in 1 .. Len(uncached_ids) |-> NewTask(uncached_ids[i])]
            /\ dpc' = "pl_collect"
            /\ UNCHANGED <<calls_made, app_ids, idx, uncached_ids>>
       ELSE /\ task' = task
            /\ dpc' = "returned"
            /\ calls_made' = calls_made + 1
            /\ app_ids' = <<>>
            /\ idx' = 0
            /\ uncached_ids' = <<>>
  /\ UNCHANGED <<netVars, mainVars, unitVars, cacheVars, results, ids_passed, collect_log>>

\* (variant: a call that raised leaves no entry)
PlCollectSkipRaised(i) ==
  /\ dpc = "pl_collect"
  /\ task[i].pc = "finished"
  /\ ~task[i].collected
  /\ results' = IF task[i].raised THEN results ELSE (task[i].aid :> task[i].ret) @@ results
  /\ task' = [task EXCEPT ![i].collected = TRUE]
  /\ collect_log' = Append(collect_log, task[i].aid)
  /\ UNCHANGED <<netVars, mainVars, unitVars, cacheVars, dpc, app_ids, idx, uncached_ids, calls_made, ids_passed>>

\* for future in as_completed(...): results[aid] = future.result(), or the
\* sentinel record when the call raised
PlCollect(i) ==
  /\ dpc = "pl_collect"
  /\ task[i].pc = "finished"
  /\ ~task[i].collected
  /\ results' = (task[i].aid :> (IF task[i].raised THEN Sentinel ELSE task[i].ret)) @@ results
  /\ task' = [task EXCEPT ![i].collected = TRUE]
  /\ collect_log' = Append(collect_log, task[i].aid)
  /\ UNCHANGED <<netVars, mainVars, unitVars, cacheVars, dpc, app_ids, idx, uncached_ids, calls_made, ids_passed>>

\* every future has been yielded; the executor is shut down; return results
\* (the call's locals and its futures are dropped)
PlReturn ==
  /\ dpc = "pl_collect"
  /\ \A i \in Tasks : task[i].collected
  /\ dpc' = "returned"
  /\ calls_made' = calls_made + 1
  /\ app_ids' = <<>>
  /\ idx' = 0
  /\ uncached_ids' = <<>>
  /\ task' = <<>>
  /\ UNCHANGED <<netVars, mainVars, unitVars, cacheVars, results, ids_passed, collect_log>>

\* a list in which one identifier comes three times
RepeatedIds == <<"A", "A", "A">>

\* the id lists a caller can pass: any list over the identifiers, repeats
\* included (as _build_rows_parallel passes them)
IdLists == UNION {[1 .. n -> LookupIds] : n \in 1 .. MaxIds} \cup {RepeatedIds}

\* a ranking function calls parallel_lookup_apps
LookupCall ==
  /\ dpc \in {"idle", "returned"}
  /\ \E ids \in IdLists :
       /\ ids_passed + Len(ids) <= MaxTotalIds
       /\ PlCall(ids)
  /\ UNCHANGED mainVars

InitLookup ==
  /\ InitRate
  /\ InitMainState
  /\ clock = 0
  /\ job = [t \in Threads |-> "none"]
  /\ InitLookupState

NextWorkers ==
  \/ \E i \in Tasks : TaskStart(i)
  \/ \E i \in Tasks : LkAcquireForCheck(i)
  \/ \E i \in Tasks : LkCheck(i)
  \/ \E i \in Tasks : LkUnifiedBegin(i)
  \/ \E i \in Tasks : LkUnifiedEnd(i)
  \/ \E i \in Tasks : LkPlatformBegin(i)
  \/ \E i \in Tasks : LkPlatformEnd(i)
  \/ \E i \in Tasks : LkAcquireForWrite(i)
  \/ \E i \in Tasks : LkWrite(i)

NextDispatch ==
  \/ PlAcquire
  \/ PlCheck
  \/ PlSubmit
  \/ \E i \in Tasks : PlCollect(i)
  \/ PlReturn

NextLookup ==
  \/ LookupCall
  \/ NextDispatch
  \/ NextWorkers

SpecLookup == InitLookup /\ [][NextLookup]_vars

\* ------------------------------------------------- the pool under load
\* lookup_app(aid) run from its first statement to its return in one step:
\* the value returned (or the exception) and what it leaves in the cache
\* (the call's locals and its history are not kept past the return)
LkRunToEnd(i) ==
  /\ task[i].pc = "start"
  /\ CacheLockFree
  /\ LET aid == task[i].aid
     IN IF aid \in DOMAIN app_cache
          THEN /\ task' = [task EXCEPT ![i].pc = "finished", ![i].prior = {}, ![i].ret = app_cache[aid]]
               /\ UNCHANGED <<app_cache, net_count, writer>>
          ELSE /\ net_count' = [net_count EXCEPT ![aid] = @ + 1]
               /\ \E a \in UnifiedAnswers(aid) :
                    CASE a.kind \in {"none", "list"} ->
                           /\ task' = [task EXCEPT ![i].pc = "finished", ![i].prior = {}, ![i].ret = Sentinel]
                           /\ app_cache' = (aid :> Sentinel) @@ app_cache
                           /\ writer' = (aid :> <<calls_made, i>>) @@ writer
                      [] a.kind = "badsubs" ->
                           /\ task' = [task EXCEPT ![i].pc = "finished", ![i].prior = {}, ![i].raised = TRUE]
                           /\ UNCHANGED <<app_cache, writer>>
                      [] OTHER ->
                           \E p \in IF PlatformTarget(a.data) # ""
                                      THEN PlatformAnswers(PlatformTarget(a.data))
                                      ELSE {NoAnswer} :
                             LET built == BuildResult(a.data)
                                 res == IF p.kind = "dict"
                                          THEN [built EXCEPT !.description = DescriptionOf(p.data)]
                                          ELSE built
                             IN /\ task' = [task EXCEPT ![i].pc = "finished", ![i].prior = {}, ![i].ret = res]
                                /\ app_cache' = (aid :> res) @@ app_cache
                                /\ writer' = (aid :> <<calls_made, i>>) @@ writer
  /\ UNCHANGED <<netVars, mainVars, unitVars, cache_lock, dispVars>>

\* a list with more uncached entries than the pool has workers
PoolIds == [i \in 1 .. MAX_WORKERS + PoolExtra |-> "A"]

\* parallel_lookup_apps is called once with that list
PoolCall ==
  /\ dpc = "idle"
  /\ PlCall(PoolIds)
  /\ UNCHANGED mainVars

NextPool ==
  \/ PoolCall
  \/ NextDispatch
  \/ \E i \in Tasks : TaskStart(i)
  \/ \E i \in Tasks : LkRunToEnd(i)

SpecPool == InitLookup /\ [][NextPool]_vars

\* ------------------------------------- the workers and both locks together
\* parallel_lookup_apps with every st_get of its workers taken attempt by
\* attempt, each attempt going through _rate_limited_wait: the two locks
\* and the loops are as in the code. A worker's steps are cut where it
\* may block, at the two `with` statements; what it does between two of
\* them touches nothing shared and is one step. Time is left out: a
\* time.sleep returns, whatever its length, and the limiter's arithmetic
\* is looked at on its own in SpecRate. Lookup i runs on thread i.

\* the id lists of the call: one lookup per thread, all for one
\* identifier or for the two in turn
LiveLists ==
  {[i \in Threads |-> "A"], [i \in Threads |-> IF i % 2 = 1 THEN "A" ELSE "B"]}

LiveCall ==
  /\ dpc = "idle"
  /\ \E ids \in LiveLists : PlCall(ids)
  /\ UNCHANGED mainVars

\* the frame of a step of thread t that is inside st_get
LiveThreadFrame ==
  UNCHANGED <<clock, st_last_call, prev_grant, n_grants, job, now, wake, waits,
              status, backoff, result, grants, requests>>

\* (variant: the unified request is made inside the `with _cache_lock:`
\* block of the check)
LvCheckInsideLock(i) ==
  /\ task[i].pc = "check"
  /\ IF task[i].aid \in DOMAIN app_cache
       THEN /\ task' = [task EXCEPT ![i].pc = "finished", ![i].ret = app_cache[task[i].aid]]
            /\ cache_lock' = NoThread
            /\ UNCHANGED <<net_count, pc>>
       ELSE /\ task' = [task EXCEPT ![i].pc = "unified_wait"]
            /\ cache_lock' = cache_lock
            /\ net_count' = [net_count EXCEPT ![task[i].aid] = @ + 1]
            /\ pc' = [pc EXCEPT ![i] = "rl_enter"]
  /\ UNCHANGED <<st_rate_lock, attempt>>
  /\ LiveThreadFrame
  /\ UNCHANGED <<mainVars, unitVars, app_cache, writer, dispVars>>

\* if app_id_str in _app_cache: return the copy; otherwise the lock is
\* left and st_get("/v1/unified/apps/<id>", {}) is entered, up to the
\* `with _st_rate_lock:` of its first attempt
LvCheck(i) ==
  /\ task[i].pc = "check"
  /\ cache_lock' = NoThread
  /\ IF task[i].aid \in DOMAIN app_cache
       THEN /\ task' = [task EXCEPT ![i].pc = "finished", ![i].ret = app_cache[task[i].aid]]
            /\ UNCHANGED <<net_count, pc>>
       ELSE /\ task' = [task EXCEPT ![i].pc = "unified_wait"]
            /\ net_count' = [net_count EXCEPT ![task[i].aid] = @ + 1]
            /\ pc' = [pc EXCEPT ![i] = "rl_enter"]
  /\ UNCHANGED <<st_rate_lock, attempt>>
  /\ LiveThreadFrame
  /\ UNCHANGED <<mainVars, unitVars, app_cache, writer, dispVars>>

\* with _st_rate_lock: (blocks until the lock is free)
LvRateEnter(t) ==
  /\ pc[t] = "rl_enter"
  /\ RateLockFree
  /\ st_rate_lock' = t
  /\ pc' = [pc EXCEPT ![t] = "rl_hold"]
  /\ UNCHANGED attempt
  /\ LiveThreadFrame
  /\ UNCHANGED <<lookupVars, mainVars, unitVars>>

\* the responses after which the current attempt returns a body, and
\* those after which it does not
Returning(t) == {r \in Responses : Disposition(r, attempt[t]).do = "return"}
Failing(t) == Responses \ Returning(t)

\* the rest of _rate_limited_wait, which leaves the lock, then the
\* request and its failure: the sleep of the branch and the next turn of
\* the loop, up to its `with _st_rate_lock:`
LvRetry(t) ==
  /\ pc[t] = "rl_hold"
  /\ Failing(t) # {}
  /\ attempt[t] + 1 < MaxAttempts
  /\ st_rate_lock' = NoThread
  /\ pc' = [pc EXCEPT ![t] = "rl_enter"]
  /\ attempt' = [attempt EXCEPT ![t] = @ + 1]
  /\ LiveThreadFrame
  /\ UNCHANGED <<lookupVars, mainVars, unitVars>>

\* what st_get hands to lookup_app when the current attempt is its last
\* one: a parsed body, or None when that was the fifth failure
Handed(t, answers) ==
  {a \in answers : a.kind # "none" /\ Returning(t) # {}}
    \cup {a \in answers : a.kind = "none" /\ Failing(t) # {} /\ attempt[t] + 1 = MaxAttempts}

\* the rest of _rate_limited_wait, the request, and the return of st_get
\* with the unified data: the record is built, and when the app has a
\* sub-app to ask for, st_get is entered again for the platform endpoint
LvUnifiedEnd(i) ==
  /\ task[i].pc = "unified_wait"
  /\ pc[i] = "rl_hold"
  /\ st_rate_lock' = NoThread
  /\ attempt' = [attempt EXCEPT ![i] = 0]
  /\ \E a \in Handed(i, UnifiedAnswers(task[i].aid)) :
       CASE a.kind \in {"none", "list"} ->
              /\ task' = [task EXCEPT ![i].pc = "store", ![i].data = a, ![i].res = Sentinel]
              /\ pc' = [pc EXCEPT ![i] = "idle"]
         [] a.kind = "badsubs" ->
              \* for sa in sub_apps: TypeError leaves lookup_app
              /\ task' = [task EXCEPT ![i].pc = "finished", ![i].data = a, ![i].raised = TRUE]
              /\ pc' = [pc EXCEPT ![i] = "idle"]
         [] OTHER ->
              /\ task' = [task EXCEPT
                            ![i].pc = IF PlatformTarget(a.data) # "" THEN "platform_wait" ELSE "store",
                            ![i].data = a,
                            ![i].res = BuildResult(a.data)]
              /\ pc' = [pc EXCEPT ![i] = IF PlatformTarget(a.data) # "" THEN "rl_enter" ELSE "idle"]
  /\ LiveThreadFrame
  /\ UNCHANGED <<mainVars, unitVars, cacheVars, dispVars>>

\* the same for the platform call: the description is taken from the
\* platform data
LvPlatformEnd(i) ==
  /\ task[i].pc = "platform_wait"
  /\ pc[i] = "rl_hold"
  /\ st_rate_lock' = NoThread
  /\ attempt' = [attempt EXCEPT ![i] = 0]
  /\ pc' = [pc EXCEPT ![i] = "idle"]
  /\ \E a \in Handed(i, PlatformAnswers(PlatformTarget(task[i].data.data))) :
       task' = [task EXCEPT
                  ![i].pc = "store",
                  ![i].plat = a,
                  ![i].res = IF a.kind = "dict"
                               THEN [@ EXCEPT !.description = DescriptionOf(a.data)]
                               ELSE @]
  /\ LiveThreadFrame
  /\ UNCHANGED <<mainVars, unitVars, cacheVars, dispVars>>

\* what the worker thread of lookup i can do next
LiveWorker(i) ==
  /\ i \in Tasks
  /\ \/ TaskStart(i)
     \/ LkAcquireForCheck(i)
     \/ LvCheck(i)
     \/ LvRateEnter(i)
     \/ LvRetry(i)
     \/ LvUnifiedEnd(i)
     \/ LvPlatformEnd(i)
     \/ LkAcquireForWrite(i)
     \/ LkWrite(i)

NextLive ==
  \/ LiveCall
  \/ NextDispatch
  \/ \E i \in Tasks : TaskStart(i)
  \/ \E i \in Tasks : LkAcquireForCheck(i)
  \/ \E i \in Tasks : LvCheck(i)
  \/ \E i \in Tasks : LvRateEnter(i)
  \/ \E i \in Tasks : LvRetry(i)
  \/ \E i \in Tasks : LvUnifiedEnd(i)
  \/ \E i \in Tasks : LvPlatformEnd(i)
  \/ \E i \in Tasks : LkAcquireForWrite(i)
  \/ \E i \in Tasks : LkWrite(i)

\* every thread that can take a step is scheduled in the end, and every
\* request is answered or fails
LiveFair ==
  /\ WF_vars(NextDispatch)
  /\ WF_vars(LiveCall)
  /\ \A i \in Threads : WF_vars(LiveWorker(i))

SpecLive == InitLookup /\ [][NextLive]_vars /\ LiveFair

\* ====================================================================
\* main: the five phases
\* ====================================================================
\* JSON numbers that may be null: <<v>> is the number v, <<>> is null.
\* Fractions (the API's transformed_delta, and a quotient of totals) are
\* kept exact as numerator and denominator.
Null == <<>>
Frac(n, d) == [num |-> n, den |-> d]

DAYS == 7
CAP == 50

\* x or 0
OrZero(v) == IF v = Null THEN 0 ELSE v[1]
OrZeroFrac(v) == IF v = Null THEN Frac(0, 1) ELSE v[1]

\* a / b cut down to an integer instead of rounded
RoundDown(a, b) == a \div b

\* round(a / b) for b > 0: to the nearest integer, ties to the even one
RoundHalfEven(a, b) ==
  LET q == a \div b
      r == a - q * b
  IN IF 2 * r < b THEN q
     ELSE IF 2 * r > b THEN q + 1
     ELSE IF q % 2 = 0 THEN q ELSE q + 1

\* d.get(k1, d.get(k2, 0)) or 0
RawNumber(d, k1, k2) == OrZero(Get(d, k1, Get(d, k2, <<0>>)))

RECURSIVE SumEntities(_, _, _)
SumEntities(entities, k1, k2) ==
  IF entities = <<>> THEN 0
  ELSE RawNumber(Head(entities), k1, k2) + SumEntities(Tail(entities), k1, k2)

\* aggregate_entities with pct_change taken from the daily averages
aggregate_entitiesRoundedRatio(item) ==
  LET entities == Get(item, "entities", <<>>)
  IN IF entities = <<>>
       THEN [downloads |-> RoundHalfEven(RawNumber(item, "units_absolute", "absolute"), DAYS),
             prev_downloads |->
               RoundHalfEven(OrZero(Get(item, "comparison_units_value", <<0>>)), DAYS),
             delta |-> RoundHalfEven(RawNumber(item, "units_delta", "delta"), DAYS),
             pct_change |-> Get(item, "units_transformed_delta",
                                Get(item, "transformed_delta", <<Frac(0, 1)>>))]
       ELSE LET total_downloads == SumEntities(entities, "units_absolute", "absolute")
                total_prev ==
                  SumEntities(entities, "comparison_units_value", "comparison_units_value")
                total_delta == SumEntities(entities, "units_delta", "delta")
            IN [downloads |-> RoundHalfEven(total_downloads, DAYS),
                prev_downloads |-> RoundHalfEven(total_prev, DAYS),
                delta |-> RoundHalfEven(total_delta, DAYS),
                pct_change |->
                  IF total_prev > 0
                    THEN <<Frac(RoundHalfEven(total_delta, DAYS),
                                RoundHalfEven(total_prev, DAYS))>>
                    ELSE <<OrZeroFrac(Get(entities[1], "units_transformed_delta",
                                          Get(entities[1], "transformed_delta",
                                              <<Frac(0, 1)>>)))>>]

\* aggregate_entities(item); pct_change is <<fraction>> or null
aggregate_entities(item) ==
  LET entities == Get(item, "entities", <<>>)
  IN IF entities = <<>>
       THEN [downloads |-> RoundHalfEven(RawNumber(item, "units_absolute", "absolute"), DAYS),
             prev_downloads |->
               RoundHalfEven(OrZero(Get(item, "comparison_units_value", <<0>>)), DAYS),
             delta |-> RoundHalfEven(RawNumber(item, "units_delta", "delta"), DAYS),
             pct_change |-> Get(item, "units_transformed_delta",
                                Get(item, "transformed_delta", <<Frac(0, 1)>>))]
       ELSE LET total_downloads == SumEntities(entities, "units_absolute", "absolute")
                total_prev ==
                  SumEntities(entities, "comparison_units_value", "comparison_units_value")
                total_delta == SumEntities(entities, "units_delta", "delta")
            IN [downloads |-> RoundHalfEven(total_downloads, DAYS),
                prev_downloads |-> RoundHalfEven(total_prev, DAYS),
                delta |-> RoundHalfEven(total_delta, DAYS),
                pct_change |->
                  IF total_prev > 0
                    THEN <<Frac(total_delta, total_prev)>>
                    ELSE <<OrZeroFrac(Get(entities[1], "units_transformed_delta",
                                          Get(entities[1], "transformed_delta",
                                              <<Frac(0, 1)>>)))>>]

\* round(pct_change * 100, 2), in hundredths of a percent
PctTimes100(p) == RoundHalfEven(p.num * 10000, p.den)

\* ------------------------------------------------- what the API can answer
TopItem(id, abs, prev, delta, td) ==
  [app_id |-> id, units_absolute |-> <<abs>>, comparison_units_value |-> <<prev>>,
   units_delta |-> <<delta>>, units_transformed_delta |-> <<td>>]

Entity(abs, prev, delta) ==
  [units_absolute |-> <<abs>>, comparison_units_value |-> <<prev>>, units_delta |-> <<delta>>]

UnifiedItem(id, ents) == [app_id |-> id, entities |-> ents]

\* an item that carries no app_id
ItemNoId == [units_absolute |-> <<7>>, comparison_units_value |-> Null]

\* an item whose transformed delta is null and that has no entities
ItemNullPct ==
  [app_id |-> "B", units_absolute |-> <<14>>, units_transformed_delta |-> Null]

\* a list longer than the cap: fifty items for "A", then one for "B"
LongList ==
  [k \in 1 .. CAP + 1 |->
     IF k <= CAP THEN TopItem("A", 7 * k, 7, 7 * k - 7, Frac(k - 1, 1))
     ELSE TopItem("B", 7, 7, 0, Frac(0, 1))]

None == [kind |-> "none"]
JsonList(l) == [kind |-> "list", data |-> l]
JsonDict(d) == [kind |-> "dict", data |-> d]

DownloadsTwo ==
  JsonList(<<UnifiedItem("A", <<Entity(70, 70, 0), Entity(140, 140, 0)>>),
             TopItem("B", 77, 70, 7, Frac(1, 10))>>)
GrowthThree ==
  JsonList(<<TopItem("B", 30, 10, 20, Frac(2, 1)),
             UnifiedItem("A", <<Entity(21, 0, 21)>>), ItemNoId>>)
DeltaRepeated ==
  JsonList(<<TopItem("A", 700, 350, 350, Frac(1, 1)),
             TopItem("A", 70, 140, -70, Frac(-1, 2))>>)
AdvTwo ==
  JsonDict([apps |-> <<[app_id |-> "B", name |-> "Bolt Ads", publisher_name |-> "Bolt Inc",
                        icon_url |-> "adv-icon-b", sov |-> 31],
                       [app_id |-> "A", humanized_name |-> "Alpha Ads", sov |-> 12]>>])
AdvNameless ==
  JsonDict([apps |-> <<[app_id |-> "A", sov |-> 9], [name |-> "Nameless"]>>])

Answers(d, g, l, a) == [downloads |-> d, growth |-> g, delta |-> l, advertisers |-> a]

\* the values the four ranking queries of one run can return
RankingScenarios ==
  {Answers(None, None, None, None),
   Answers(DownloadsTwo, GrowthThree, DeltaRepeated, AdvTwo),
   Answers(JsonList(LongList), JsonList(<<>>), DeltaRepeated, AdvNameless),
   Answers(DownloadsTwo, None, JsonList(<<ItemNullPct>>), None),
   Answers(None, GrowthThree, None, AdvTwo),
   Answers(None, GrowthThree, None, JsonDict(<<>>))}

\* the values st_get can return for the query of list n, given what the
\* earlier queries of the run returned
RankingAnswers(n, api) ==
  {sc[n] : sc \in {x \in RankingScenarios :
                     \A m \in Lists : api[m] # Unfetched => api[m] = x[m]}}

\* the parsed model replies batch_summarize_descriptions can end up with
\* (none: no key, call_gemini returned nothing, or nothing could be parsed)
SummaryAnswers ==
  {None,
   JsonList(<<[index |-> 1, summary |-> "S1"]>>),
   JsonList(<<[index |-> 2, summary |-> "S2"], [index |-> 0, summary |-> "S0"],
              [index |-> 1, summary |-> ""], [summary |-> "no index"],
              [index |-> 99, summary |-> "S99"]>>)}

\* ------------------------------------------------------ phases 1 and 2
\* `if data:` on a value st_get returned
Truthy(a) ==
  CASE a.kind = "list" -> a.data # <<>>
    [] a.kind = "dict" -> DOMAIN a.data # {}
    [] OTHER -> FALSE

\* seq[:50]
Capped(seq) == SubSeq(seq, 1, IF Len(seq) < CAP THEN Len(seq) ELSE CAP)

\* the items main takes from a list: data[:50], or data.get("apps", [])[:50]
ItemsOf(n, api) ==
  IF ~Truthy(api[n]) THEN <<>>
  ELSE IF n = "advertisers" THEN Capped(Get(api[n].data, "apps", <<>>))
  ELSE Capped(api[n].data)

\* str(item.get("app_id", ""))
ItemId(item) == Get(item, "app_id", "")

IdsIn(items) == {ItemId(items[k]) : k \in 1 .. Len(items)}

RECURSIVE IdsOfSeq(_)
IdsOfSeq(items) ==
  IF items = <<>> THEN <<>> ELSE <<ItemId(Head(items))>> \o IdsOfSeq(Tail(items))

\* all_app_ids: the set built from the four lists, "" discarded
AllAppIds(api) == (UNION {IdsIn(ItemsOf(n, api)) : n \in Lists}) \ {""}

\* (variant: the identifiers of the four lists are passed as they come)
IdOrdersNoDedup(api) ==
  {SelectSeq(IdsOfSeq(ItemsOf("downloads", api)) \o IdsOfSeq(ItemsOf("growth", api))
             \o IdsOfSeq(ItemsOf("delta", api)) \o IdsOfSeq(ItemsOf("advertisers", api)),
             LAMBDA x : x # "")}

\* list(all_app_ids): the set in some order
IdOrders(api) ==
  LET S == AllAppIds(api)
  IN {f \in [1 .. Cardinality(S) -> S] : \A i, j \in DOMAIN f : f[i] = f[j] => i = j}

MainStart ==
  /\ mpc = "start"
  /\ mpc' = "phase1"
  /\ step' = 1
  /\ UNCHANGED <<netVars, lookupVars, unitVars, api_data, app_infos, rows, summarizer, tables>>

\* phase 1: the four ranking queries, one after the other
MainFetch ==
  /\ mpc = "phase1"
  /\ \E a \in RankingAnswers(ListNames[step], api_data) :
       api_data' = [api_data EXCEPT ![ListNames[step]] = a]
  /\ IF step < 4
       THEN /\ step' = step + 1
            /\ mpc' = mpc
       ELSE /\ step' = 0
            /\ mpc' = "phase2"
  /\ UNCHANGED <<netVars, lookupVars, unitVars, app_infos, rows, summarizer, tables>>

\* phase 2: app_infos = parallel_lookup_apps(list(all_app_ids)) is called
MainLookup ==
  /\ mpc = "phase2"
  /\ \E ids \in IdOrders(api_data) : PlCall(ids)
  /\ mpc' = "lookup"
  /\ UNCHANGED <<step, api_data, app_infos, rows, summarizer, tables>>

\* ------------------------------------------------------------- phase 3
FETCH_DATE == "fetch_date"
PERIOD_START == "latest-6"
PERIOD_END == "latest"
PREV_START == "latest-13"
PREV_END == "latest-7"

DefaultInfo ==
  [name |-> "Unknown", icon_url |-> "", publisher |-> "Unknown", description |-> "",
   ios_store_url |-> "", android_store_url |-> ""]

\* app_infos.get(uid, _default_info())
InfoFor(infos, uid) == IF uid \in DOMAIN infos THEN infos[uid] ELSE DefaultInfo

\* round(None * 100, 2) raises TypeError
RowRaises(item) == aggregate_entities(item).pct_change = Null

\* one row of the downloads, growth or delta list
MetricRow(rank, item, infos) ==
  LET uid == ItemId(item)
      info == InfoFor(infos, uid)
      agg == aggregate_entities(item)
  IN [fetch_date |-> FETCH_DATE, period_start |-> PERIOD_START, period_end |-> PERIOD_END,
      prev_period_start |-> PREV_START, prev_period_end |-> PREV_END,
      rank |-> rank, app_id |-> uid, app_name |-> info.name, publisher |-> info.publisher,
      icon_url |-> info.icon_url, downloads |-> agg.downloads,
      previous_downloads |-> agg.prev_downloads, download_delta |-> agg.delta,
      download_pct_change |-> PctTimes100(agg.pct_change[1]),
      app_description |-> info.description,
      ios_store_url |-> Get(info, "ios_store_url", ""),
      android_store_url |-> Get(info, "android_store_url", "")]

\* (variant: ranks counted from zero)
MetricRowsFromZero(items, infos) ==
  [k \in 1 .. Len(items) |-> MetricRow(k - 1, items[k], infos)]

\* for rank, item in enumerate(data[:50], 1): rows.append({...})
MetricRows(items, infos) ==
  [k \in 1 .. Len(items) |-> MetricRow(k, items[k], infos)]

\* the fallback to the advertiser endpoint's own fields
AdvFallback(info, app) ==
  [info EXCEPT
     !.name = IF @ = "Unknown"
                THEN Get(app, "name", Get(app, "humanized_name", "Unknown")) ELSE @,
     !.publisher = IF @ = "Unknown" THEN Get(app, "publisher_name", "Unknown") ELSE @,
     !.icon_url = IF @ = "" THEN Get(app, "icon_url", "") ELSE @]

AdvRow(rank, app, info) ==
  [fetch_date |-> FETCH_DATE, period_start |-> PERIOD_START,
   rank |-> rank, app_id |-> ItemId(app), app_name |-> info.name,
   publisher |-> info.publisher, icon_url |-> info.icon_url,
   sov |-> Get(app, "sov", 0), app_description |-> Get(info, "description", ""),
   ios_store_url |-> Get(info, "ios_store_url", ""),
   android_store_url |-> Get(info, "android_store_url", "")]

\* the advertiser loop from item k on: the rows, and app_infos as the
\* fallback leaves it (info is the dict held by app_infos, changed in place)
RECURSIVE AdvLoop(_, _, _, _)
AdvLoop(apps, k, infos, acc) ==
  IF k > Len(apps) THEN [rows |-> acc, infos |-> infos]
  ELSE LET app == apps[k]
           uid == ItemId(app)
           info == AdvFallback(InfoFor(infos, uid), app)
           infos2 == IF uid \in DOMAIN infos THEN [infos EXCEPT ![uid] = info] ELSE infos
       IN AdvLoop(apps, k + 1, infos2, Append(acc, AdvRow(k, app, info)))

\* (variant: the advertiser rows are built before the other three lists)
MainBuildRowsAdvFirst ==
  /\ mpc = "lookup"
  /\ dpc = "returned"
  /\ LET metric == {"downloads", "growth", "delta"}
         raises == \E n \in metric :
                     \E k \in 1 .. Len(ItemsOf(n, api_data)) :
                        RowRaises(ItemsOf(n, api_data)[k])
         adv == AdvLoop(ItemsOf("advertisers", api_data), 1, results, <<>>)
     IN IF raises
          THEN /\ mpc' = "raised"
               /\ app_infos' = results
               /\ rows' = rows
          ELSE /\ mpc' = "phase4"
               /\ app_infos' = adv.infos
               /\ rows' = [n \in Lists |->
                             IF n \in metric
                               THEN MetricRows(ItemsOf(n, api_data), adv.infos)
                               ELSE adv.rows]
  /\ UNCHANGED <<netVars, lookupVars, unitVars, step, api_data, summarizer, tables>>

\* phase 3: the four row lists are built from the lists and app_infos
MainBuildRows ==
  /\ mpc = "lookup"
  /\ dpc = "returned"
  /\ LET metric == {"downloads", "growth", "delta"}
         raises == \E n \in metric :
                     \E k \in 1 .. Len(ItemsOf(n, api_data)) :
                        RowRaises(ItemsOf(n, api_data)[k])
         adv == AdvLoop(ItemsOf("advertisers", api_data), 1, results, <<>>)
     IN IF raises
          THEN /\ mpc' = "raised"
               /\ app_infos' = results
               /\ rows' = rows
          ELSE /\ mpc' = "phase4"
               /\ app_infos' = adv.infos
               /\ rows' = [n \in Lists |->
                             IF n \in metric
                               THEN MetricRows(ItemsOf(n, api_data), results)
                               ELSE adv.rows]
  /\ UNCHANGED <<netVars, lookupVars, unitVars, step, api_data, summarizer, tables>>

\* ------------------------------------------------------------- phase 4
\* for item in summaries: rows[index - 1]["app_description"] = summary
RECURSIVE ApplySummaries(_, _)
ApplySummaries(rs, summaries) ==
  IF summaries = <<>> THEN rs
  ELSE LET item == Head(summaries)
           i == Get(item, "index", 0) - 1
           summary == Get(item, "summary", "")
       IN ApplySummaries(IF 0 <= i /\ i < Len(rs) /\ summary # ""
                           THEN [rs EXCEPT ![i + 1].app_description = summary]
                           ELSE rs,
                         Tail(summaries))

\* one batch_summarize_descriptions task is submitted per non-empty list
MainSubmit ==
  /\ mpc = "phase4"
  /\ summarizer' = [n \in Lists |-> IF rows[n] # <<>> THEN "running" ELSE "none"]
  /\ mpc' = "await"
  /\ UNCHANGED <<netVars, lookupVars, unitVars, step, api_data, app_infos, rows, tables>>

\* (variant: the row lists share their row objects, so that a task's
\* writes show in every list)
SumFinishShared(n) ==
  /\ summarizer[n] = "running"
  /\ \E a \in SummaryAnswers :
       rows' = [m \in Lists |->
                  IF a.kind = "list" THEN ApplySummaries(rows[m], a.data) ELSE rows[m]]
  /\ summarizer' = [summarizer EXCEPT ![n] = "done"]
  /\ UNCHANGED <<netVars, lookupVars, unitVars, mpc, step, api_data, app_infos, tables>>

\* a summarizer task runs to its end on its own list
SumFinish(n) ==
  /\ summarizer[n] = "running"
  /\ \E a \in SummaryAnswers :
       rows' = [rows EXCEPT ![n] = IF a.kind = "list" THEN ApplySummaries(@, a.data) ELSE @]
  /\ summarizer' = [summarizer EXCEPT ![n] = "done"]
  /\ UNCHANGED <<netVars, lookupVars, unitVars, mpc, step, api_data, app_infos, tables>>

\* (variant: main goes on without waiting for the summarizers)
MainAwaitNoJoin ==
  /\ mpc = "await"
  /\ mpc' = "phase5"
  /\ step' = 1
  /\ UNCHANGED <<netVars, lookupVars, unitVars, api_data, app_infos, rows, summarizer, tables>>

\* the executor's with-block ends once every task has finished
MainAwait ==
  /\ mpc = "await"
  /\ \A n \in Lists : summarizer[n] # "running"
  /\ mpc' = "phase5"
  /\ step' = 1
  /\ UNCHANGED <<netVars, lookupVars, unitVars, api_data, app_infos, rows, summarizer, tables>>

\* ------------------------------------------------------------- phase 5
UpsertOrder == <<"downloads", "growth", "advertisers", "delta">>

\* upsert_rows(table, rows): delete what the table holds, insert the rows;
\* either request can be refused
MainUpsert ==
  /\ mpc = "phase5"
  /\ LET n == UpsertOrder[step]
         t == TableOf[n]
     IN IF rows[n] = <<>>
          THEN tables' = tables
          ELSE \E deleted, inserted \in BOOLEAN :
                 tables' = [tables EXCEPT
                              ![t] = (IF deleted THEN <<>> ELSE @)
                                     \o (IF inserted THEN rows[n] ELSE <<>>)]
  /\ IF step < 4
       THEN /\ step' = step + 1
            /\ mpc' = mpc
       ELSE /\ step' = 0
            /\ mpc' = "done"
  /\ UNCHANGED <<netVars, lookupVars, unitVars, api_data, app_infos, rows, summarizer>>

InitMain ==
  /\ InitRate
  /\ InitMainState
  /\ clock = 0
  /\ job = [t \in Threads |-> "none"]
  /\ InitLookupState

NextMain ==
  \/ MainStart
  \/ MainFetch
  \/ MainLookup
  \/ NextDispatch
  \/ NextWorkers
  \/ MainBuildRows
  \/ MainSubmit
  \/ \E n \in Lists : SumFinish(n)
  \/ MainAwait
  \/ MainUpsert

SpecMain == InitMain /\ [][NextMain]_vars

\* ====================================================================
\* aggregate_entities on its own: one call on an item of the API's shape
\* ====================================================================
MaxEntities == 2

AbsParts == {[units_absolute |-> <<143>>], [absolute |-> <<10>>]}
DeltaParts == {[units_delta |-> <<70>>], [delta |-> <<-75>>]}
PrevParts ==
  {[comparison_units_value |-> <<700>>], [comparison_units_value |-> <<-7>>],
   [comparison_units_value |-> Null]}
TdParts ==
  {[units_transformed_delta |-> <<Frac(1, 2)>>],
   [units_transformed_delta |-> Null, transformed_delta |-> <<Frac(3, 1)>>]}

\* a fragment whose units_* keys are present and null beside the short keys
NullUnitsFragment ==
  [units_absolute |-> Null, absolute |-> <<7>>, units_delta |-> Null, delta |-> <<5>>,
   transformed_delta |-> <<Frac(3, 1)>>]

\* the dicts an entity, or an item without entities, can be: the absolute
\* and delta values under either key, the comparison value and the
\* transformed delta present, null or absent
Fragments ==
  LET core == {a @@ d : a \in AbsParts, d \in DeltaParts}
      withPrev == core \cup {c @@ p : c \in core, p \in PrevParts}
      withTd == withPrev \cup {w @@ t : w \in withPrev, t \in TdParts}
  IN withTd \cup {Entity(70, 70, 0), Entity(140, 140, 0), NullUnitsFragment}

AggItems ==
  Fragments
    \cup {f @@ [entities |-> <<>>] : f \in Fragments}
    \cup {[entities |-> es] : es \in UNION {[1 .. n -> Fragments] : n \in 1 .. MaxEntities}}

\* result = aggregate_entities(item)
Aggregate ==
  /\ agg_out = NotComputed
  /\ agg_out' = [computed |-> TRUE, value |-> aggregate_entities(agg_item)]
  /\ UNCHANGED <<netVars, lookupVars, mainVars, agg_item, sumVars, upVars, startVars, tailVars>>

InitAggregate ==
  /\ InitRate
  /\ InitMainPhases
  /\ clock = 0
  /\ job = [t \in Threads |-> "none"]
  /\ InitLookupState
  /\ InitSumIdle
  /\ InitUpIdle
  /\ InitStartIdle
  /\ InitTailIdle
  /\ agg_item \in AggItems
  /\ agg_out = NotComputed

NextAggregate == Aggregate

SpecAggregate == InitAggregate /\ [][NextAggregate]_vars

\* ====================================================================
\* batch_summarize_descriptions on its own: one call on a list of rows
\* ====================================================================
MaxSumRows == 2

\* ------------------------------------------- the values json.loads gives
JNull == [t |-> "null"]
JInt(n) == [t |-> "int", v |-> n]
JFloat(n, d) == [t |-> "float", v |-> Frac(n, d)]
JStr(str) == [t |-> "str", v |-> str]
JArr(l) == [t |-> "list", v |-> l]
JObj(d) == [t |-> "dict", v |-> d]

\* `not x`
Falsy(x) ==
  CASE x.t = "null" -> TRUE
    [] x.t = "int" -> x.v = 0
    [] x.t = "float" -> x.v.num = 0
    [] x.t = "str" -> x.v = ""
    [] x.t = "list" -> x.v = <<>>
    [] x.t = "dict" -> DOMAIN x.v = {}

Summary(i, str) == JObj([index |-> JInt(i), summary |-> JStr(str)])

\* ------------------------------------------------- the text of a reply
\* A reply is a sequence of pieces: a ``` fence line, words without
\* brackets or quotes, the text of one JSON value, or an array of objects
\* that is not valid JSON (a comma is missing between two objects; when
\* not closed, the text stops before the closing bracket).
Fence == [kind |-> "fence"]
Prose == [kind |-> "prose"]
Json(x) == [kind |-> "json", value |-> x]
Broken(l, closed) == [kind |-> "broken", items |-> l, closed |-> closed]

\* the array of values written in a piece: the piece itself, or the one
\* under the key "summaries" of an object
ArrayOf(c) ==
  CASE c.kind = "broken" -> c.items
    [] c.kind = "json" /\ c.value.t = "list" -> c.value.v
    [] c.kind = "json" /\ c.value.t = "dict" /\ "summaries" \in DOMAIN c.value.v
         /\ c.value.v.summaries.t = "list" -> c.value.v.summaries.v
    [] OTHER -> <<>>

\* the objects written in a piece
ObjectsOf(c) ==
  IF ArrayOf(c) # <<>> THEN ArrayOf(c)
  ELSE IF c.kind = "json" /\ c.value.t = "dict" THEN <<c.value>> ELSE <<>>

\* the piece holds the text `[ {`, the text `} ]`
OpensArray(c) == ArrayOf(c) # <<>> /\ ArrayOf(c)[1].t = "dict"
ClosesArray(c) ==
  /\ ArrayOf(c) # <<>>
  /\ ArrayOf(c)[Len(ArrayOf(c))].t = "dict"
  /\ c.kind = "broken" => c.closed

\* result.strip() with a leading ```(json) and a trailing ``` removed
Cleaned(text) ==
  IF text # <<>> /\ text[1].kind = "fence"
    THEN LET rest == Tail(text)
         IN IF rest # <<>> /\ rest[Len(rest)].kind = "fence"
              THEN SubSeq(rest, 1, Len(rest) - 1) ELSE rest
    ELSE text

\* json.loads(text): <<value>>, or <<>> for JSONDecodeError
JsonLoads(text) ==
  IF Len(text) = 1 /\ text[1].kind = "json" THEN <<text[1].value>> ELSE <<>>

\* re.search(r'\[\s*\{.*?\}\s*\]', result, re.DOTALL): the pieces from
\* the first `[ {` to the first `} ]` after it, <<>> when nothing matches
FirstArray(text) ==
  LET opens == {i \in DOMAIN text : OpensArray(text[i])}
  IN IF opens = {} THEN <<>>
     ELSE LET i == CHOOSE x \in opens : \A y \in opens : x <= y
              closes == {j \in DOMAIN text : j >= i /\ ClosesArray(text[j])}
          IN IF closes = {} THEN <<>>
             ELSE SubSeq(text, i, CHOOSE x \in closes : \A y \in closes : x <= y)

\* json.loads(match.group(0)): the match is valid JSON when it is the
\* array of one piece of JSON text
LoadsMatch(m) ==
  IF Len(m) = 1 /\ m[1].kind = "json" THEN <<JArr(ArrayOf(m[1]))>> ELSE <<>>

\* a summary text with an escaped quote, and the text as written in JSON
Quoted == "say \"hi\""
QuotedRaw == "say \\\"hi\\\""
RawOf(str) == IF str = Quoted THEN QuotedRaw ELSE str

\* re.finditer(r'"index"\s*:\s*(\d+)\s*,\s*"summary"\s*:\s*"(...)"'): an
\* object matches when its index is written in digits and its summary is
\* a string (objects are written with "index" first, "summary" next)
RECURSIVE PairsIn(_)
PairsIn(objs) ==
  IF objs = <<>> THEN <<>>
  ELSE LET x == Head(objs)
           matches == /\ x.t = "dict"
                      /\ {"index", "summary"} \subseteq DOMAIN x.v
                      /\ x.v.index.t = "int" /\ x.v.index.v >= 0
                      /\ x.v.summary.t = "str"
       IN (IF matches THEN <<Summary(x.v.index.v, RawOf(x.v.summary.v))>> ELSE <<>>)
          \o PairsIn(Tail(objs))

RECURSIVE FindPairs(_)
FindPairs(text) ==
  IF text = <<>> THEN <<>> ELSE PairsIn(ObjectsOf(Head(text))) \o FindPairs(Tail(text))

\* ------------------------------------------------ what the model replies
S1 == Summary(1, "S1")
S2 == Summary(2, "S2")
OddSummaries ==
  <<S2, Summary(0, "S0"), Summary(1, ""), JObj([summary |-> JStr("no index")]),
    Summary(99, "S99"), Summary(-1, "S-1"), Summary(1, Quoted)>>

\* the texts call_gemini can return
Replies ==
  <<<<>>,
    <<Json(JArr(<<S1, S2>>))>>,
    <<Fence, Json(JArr(OddSummaries)), Fence>>,
    <<Prose, Json(JArr(<<S1>>))>>,
    <<Prose, Fence, Json(JArr(<<S1, S2>>)), Fence>>,
    <<Prose, Json(JArr(<<S1>>)), Json(JArr(<<S2>>))>>,
    <<Broken(OddSummaries, TRUE)>>,
    <<Broken(<<S2>>, FALSE)>>,
    <<Broken(<<S1>>, FALSE), Prose, Json(JArr(<<S2>>))>>,
    <<Broken(<<Summary(-1, "S-1")>>, TRUE)>>,
    <<Prose>>,
    <<Fence>>,
    <<Json(JArr(<<>>))>>,
    <<Json(JNull)>>,
    <<Json(JObj(<<>>))>>,
    <<Json(JInt(0))>>,
    <<Json(JObj([summaries |-> JArr(<<S1>>)]))>>,
    <<Prose, Json(JObj([summaries |-> JArr(<<S1>>)]))>>,
    <<Json(S1)>>,
    <<Prose, Json(S1)>>,
    <<Json(JInt(5))>>,
    <<Json(JStr("Sorry"))>>,
    <<Json(JArr(<<S2, JInt(5)>>))>>,
    <<Prose, Json(JArr(<<S2, JInt(5)>>))>>,
    <<Json(JArr(<<JObj([index |-> JStr("1"), summary |-> JStr("S1")])>>))>>,
    <<Json(JArr(<<JObj([index |-> JNull, summary |-> JStr("S1")])>>))>>,
    <<Json(JArr(<<JObj([index |-> JFloat(1, 1), summary |-> JStr("S1")])>>))>>,
    <<Json(JArr(<<JObj([index |-> JFloat(199, 2), summary |-> JStr("S1")]),
                  JObj([index |-> JInt(1), summary |-> JInt(5)])>>))>>>>

NoResult == [kind |-> "none"]
TextResult(text) == [kind |-> "text", text |-> text]

\* the rows a list can hold: ranked, with or without a description
RowLists ==
  UNION {{[k \in 1 .. n |-> [rank |-> k, app_name |-> "N", app_description |-> JStr(ds[k])]]
            : ds \in [1 .. n -> {"", "raw"}]} : n \in 0 .. MaxSumRows}

notSum == <<netVars, lookupVars, mainVars, aggVars, upVars, startVars, tailVars>>

\* the call up to the reply: no rows or no key returns the rows as they
\* are; so does a reply that is None or empty
SumCall ==
  /\ sum_pc = "start"
  /\ IF sum_rows = <<>> \/ "GEMINI_API_KEY" \notin env
       THEN sum_pc' = "returned" /\ sum_result' = sum_result
       ELSE \E r \in {NoResult} \cup {TextResult(Replies[i]) : i \in DOMAIN Replies} :
              /\ sum_result' = r
              /\ sum_pc' = IF r = NoResult \/ r.text = <<>> THEN "returned" ELSE "direct"
  /\ UNCHANGED <<notSum, env, sum_rows, sum_rows0, sum_summaries, sum_k, sum_stage, sum_tried>>

\* try: summaries = json.loads(cleaned)
SumDirect ==
  /\ sum_pc = "direct"
  /\ LET parsed == JsonLoads(Cleaned(sum_result.text))
     IN IF parsed # <<>>
          THEN /\ sum_summaries' = parsed[1]
               /\ sum_stage' = 1
               /\ sum_pc' = "fallback"
          ELSE /\ UNCHANGED <<sum_summaries, sum_stage>>
               /\ sum_pc' = "array"
  /\ sum_tried' = sum_tried \cup {1}
  /\ UNCHANGED <<notSum, env, sum_rows, sum_rows0, sum_result, sum_k>>

\* except JSONDecodeError: the first array-shaped substring is parsed
SumArray ==
  /\ sum_pc = "array"
  /\ LET parsed == LoadsMatch(FirstArray(sum_result.text))
     IN IF parsed # <<>>
          THEN sum_summaries' = parsed[1] /\ sum_stage' = 2
          ELSE UNCHANGED <<sum_summaries, sum_stage>>
  /\ sum_tried' = sum_tried \cup {2}
  /\ sum_pc' = "fallback"
  /\ UNCHANGED <<notSum, env, sum_rows, sum_rows0, sum_result, sum_k>>

\* (variant: the index/summary pairs are taken whatever was parsed before)
SumFallbackAlways ==
  /\ sum_pc = "fallback"
  /\ LET pairs == FindPairs(sum_result.text)
     IN /\ sum_tried' = sum_tried \cup {3}
        /\ IF pairs = <<>>
             THEN /\ UNCHANGED <<sum_summaries, sum_stage>>
                  /\ sum_k' = 1
                  /\ sum_pc' = IF Falsy(sum_summaries) THEN "returned" ELSE "apply"
             ELSE /\ sum_summaries' = JArr(pairs)
                  /\ sum_stage' = 3
                  /\ sum_k' = 1
                  /\ sum_pc' = "apply"
  /\ UNCHANGED <<notSum, env, sum_rows, sum_rows0, sum_result>>

\* if not summaries: the index/summary pairs are appended; if there are
\* still none, the rows are returned
SumFallback ==
  /\ sum_pc = "fallback"
  /\ IF Falsy(sum_summaries)
       THEN LET pairs == FindPairs(sum_result.text)
            IN /\ sum_tried' = sum_tried \cup {3}
               /\ IF pairs = <<>>
                    THEN /\ UNCHANGED <<sum_summaries, sum_stage, sum_k>>
                         /\ sum_pc' = "returned"
                    ELSE IF sum_summaries.t = "list"
                      THEN /\ sum_summaries' = JArr(sum_summaries.v \o pairs)
                           /\ sum_stage' = 3
                           /\ sum_k' = 1
                           /\ sum_pc' = "apply"
                      ELSE /\ UNCHANGED <<sum_summaries, sum_stage, sum_k>>
                           /\ sum_pc' = "raised"
       ELSE /\ UNCHANGED <<sum_summaries, sum_stage, sum_tried>>
            /\ sum_k' = 1
            /\ sum_pc' = "apply"
  /\ UNCHANGED <<notSum, env, sum_rows, sum_rows0, sum_result>>

\* 0 <= idx < len(rows) for idx = index - 1
InRange(index, n) ==
  IF index.t = "int" THEN 1 <= index.v /\ index.v <= n
  ELSE index.v.den <= index.v.num /\ index.v.num < (n + 1) * index.v.den

\* (variant: the summary is written one row further down)
SumWriteNextRow(rs, i, summary) == [rs EXCEPT ![i + 1].app_description = summary]

\* rows[idx]["app_description"] = summary, for idx = i - 1
SumWrite(rs, i, summary) == [rs EXCEPT ![i].app_description = summary]

\* one turn of `for item in summaries`: the loop raises when summaries is
\* not a list, when the item has no get, when its index is not a number,
\* and when a fractional index is used as a list position
SumApply ==
  /\ sum_pc = "apply"
  /\ LET item == sum_summaries.v[sum_k]
         index == Get(item.v, "index", JInt(0))
         summary == Get(item.v, "summary", JStr(""))
         last == sum_k = Len(sum_summaries.v)
     IN IF sum_summaries.t # "list" \/ item.t # "dict" \/ index.t \notin {"int", "float"}
          THEN sum_pc' = "raised" /\ UNCHANGED <<sum_rows, sum_k>>
          ELSE IF InRange(index, Len(sum_rows)) /\ ~Falsy(summary)
            THEN IF index.t = "float"
                   THEN sum_pc' = "raised" /\ UNCHANGED <<sum_rows, sum_k>>
                   ELSE /\ sum_rows' = SumWrite(sum_rows, index.v, summary)
                        /\ sum_k' = sum_k + 1
                        /\ sum_pc' = IF last THEN "returned" ELSE "apply"
            ELSE /\ UNCHANGED sum_rows
                 /\ sum_k' = sum_k + 1
                 /\ sum_pc' = IF last THEN "returned" ELSE "apply"
  /\ UNCHANGED <<notSum, env, sum_rows0, sum_result, sum_summaries, sum_stage, sum_tried>>

InitSummarize ==
  /\ InitRate
  /\ InitMainPhases
  /\ InitAggIdle
  /\ InitUpIdle
  /\ InitStartIdle
  /\ InitTailIdle
  /\ clock = 0
  /\ job = [t \in Threads |-> "none"]
  /\ InitLookupState
  /\ env \in {EnvNames, EnvNames \ {"GEMINI_API_KEY"}}
  /\ sum_pc = "start"
  /\ sum_rows \in RowLists
  /\ sum_rows0 = sum_rows
  /\ sum_result = NoResult
  /\ sum_summaries = JArr(<<>>)
  /\ sum_k = 0
  /\ sum_stage = 0
  /\ sum_tried = {}

NextSummarize == SumCall \/ SumDirect \/ SumArray \/ SumFallback \/ SumApply

SpecSummarize == InitSummarize /\ [][NextSummarize]_vars

\* ====================================================================
\* upsert_rows on its own: one call on a table that holds a prior snapshot
\* ====================================================================
MaxBatches == 2
batch_size == 50

\* Rows are numbered: the rows passed are 1, 2, ... in their order, the
\* rows of the prior snapshot have negative numbers.
RowCounts == {0, 1} \cup {b * batch_size + d : b \in 1 .. MaxBatches, d \in {0, 1}}
PriorSnapshots == {<<>>, <<-1, -2>>}

\* what the storage service does during the call: it performs the delete
\* or refuses it, refuses some rows, and refuses some batches whatever
\* their rows (a batch is named by the position it starts at)
ServerBehaviours ==
  [delete_ok : BOOLEAN,
   bad_rows : {{}, {2, batch_size}, {batch_size + 1}},
   bad_batches : {{}, {0}, {batch_size}, {0, batch_size}}]

Request(op, rs, ok) == [op |-> op, rows |-> rs, ok |-> ok]

\* (variant: a batch reaches one row into the next one)
BatchOverlap(rs, i) ==
  SubSeq(rs, i + 1, IF i + batch_size + 1 < Len(rs) THEN i + batch_size + 1 ELSE Len(rs))

\* rows[i:i + batch_size]
BatchAt(rs, i) ==
  SubSeq(rs, i + 1, IF i + batch_size < Len(rs) THEN i + batch_size ELSE Len(rs))

\* the service takes a batch whole or not at all
BatchAccepted(batch, i) ==
  /\ i \notin up_server.bad_batches
  /\ \A k \in DOMAIN batch : batch[k] \notin up_server.bad_rows

notUp == <<netVars, lookupVars, mainVars, aggVars, sumVars, startVars, tailVars>>

\* the call up to the delete request; its status is only printed
UpStart ==
  /\ up_pc = "start"
  /\ IF up_rows = <<>>
       THEN /\ up_pc' = "returned"
            /\ UNCHANGED <<up_table, up_log>>
       ELSE /\ up_log' = <<Request("delete", <<>>, up_server.delete_ok)>>
            /\ up_table' = IF up_server.delete_ok THEN <<>> ELSE up_table
            /\ up_pc' = "batch"
  /\ UNCHANGED <<notUp, up_rows, up_i, up_j, total_inserted, up_server>>

\* (variant: a rejected batch is given up)
UpBatchNoRetry ==
  /\ up_pc = "batch"
  /\ LET batch == BatchAt(up_rows, up_i)
         ok == BatchAccepted(batch, up_i)
     IN /\ up_log' = Append(up_log, Request("batch", batch, ok))
        /\ up_table' = IF ok THEN up_table \o batch ELSE up_table
        /\ total_inserted' = IF ok THEN total_inserted + Len(batch) ELSE total_inserted
        /\ up_i' = up_i + batch_size
        /\ up_pc' = IF up_i + batch_size < Len(up_rows) THEN "batch" ELSE "returned"
  /\ UNCHANGED <<notUp, up_rows, up_j, up_server>>

\* one turn of `for i in range(0, len(rows), batch_size)`: the batch is
\* posted; when it is rejected its rows are gone through next
UpBatch ==
  /\ up_pc = "batch"
  /\ LET batch == BatchAt(up_rows, up_i)
         ok == BatchAccepted(batch, up_i)
     IN /\ up_log' = Append(up_log, Request("batch", batch, ok))
        /\ IF ok
             THEN /\ up_table' = up_table \o batch
                  /\ total_inserted' = total_inserted + Len(batch)
                  /\ up_i' = up_i + batch_size
                  /\ up_j' = 0
                  /\ up_pc' = IF up_i + batch_size < Len(up_rows) THEN "batch" ELSE "returned"
             ELSE /\ UNCHANGED <<up_table, total_inserted, up_i>>
                  /\ up_j' = 1
                  /\ up_pc' = "rows"
  /\ UNCHANGED <<notUp, up_rows, up_server>>

\* one turn of `for row in batch`: the row is posted on its own
UpRow ==
  /\ up_pc = "rows"
  /\ LET batch == BatchAt(up_rows, up_i)
         row == batch[up_j]
         ok == row \notin up_server.bad_rows
     IN /\ up_log' = Append(up_log, Request("row", <<row>>, ok))
        /\ up_table' = IF ok THEN Append(up_table, row) ELSE up_table
        /\ total_inserted' = IF ok THEN total_inserted + 1 ELSE total_inserted
        /\ IF up_j < Len(batch)
             THEN /\ up_j' = up_j + 1
                  /\ UNCHANGED <<up_i, up_pc>>
             ELSE /\ up_j' = 0
                  /\ up_i' = up_i + batch_size
                  /\ up_pc' = IF up_i + batch_size < Len(up_rows) THEN "batch" ELSE "returned"
  /\ UNCHANGED <<notUp, up_rows, up_server>>

InitUpsert ==
  /\ InitRate
  /\ InitMainPhases
  /\ InitAggIdle
  /\ InitSumIdle
  /\ InitStartIdle
  /\ InitTailIdle
  /\ clock = 0
  /\ job = [t \in Threads |-> "none"]
  /\ InitLookupState
  /\ up_pc = "start"
  /\ up_rows \in {[k \in 1 .. n |-> k] : n \in RowCounts}
  /\ up_i = 0
  /\ up_j = 0
  /\ total_inserted = 0
  /\ up_table \in PriorSnapshots
  /\ up_server \in ServerBehaviours
  /\ up_log = <<>>

NextUpsert == UpStart \/ UpBatch \/ UpRow

SpecUpsert == InitUpsert /\ [][NextUpsert]_vars

\* ====================================================================
\* the start of the two programs: main of fetch_sensortower.py and main
\* of fetch_producthunt_top.py, from the credential checks on
\* ====================================================================
\* the environment variables the two programs read; one that is set to
\* the empty string counts as not set
AllEnvNames == EnvNames \cup {"PH_API_KEY", "PH_API_SECRET"}

notStart == <<netVars, lookupVars, mainVars, aggVars, upVars, tailVars>>
sumLocals ==
  <<sum_pc, sum_rows, sum_rows0, sum_result, sum_summaries, sum_k, sum_stage, sum_tried>>

\* main goes from one statement to the next
StartGoes(from, to) ==
  /\ start_pc = from
  /\ start_pc' = to
  /\ UNCHANGED <<notStart, sumLocals, env, prog>>

\* sys.exit(1)
StartExits(from, to) ==
  /\ StartGoes(from, to)
  /\ exit_status' = 1
  /\ UNCHANGED <<requests_sent, summarized>>

\* if not ST_API_KEY: sys.exit(1)
StCheckKey ==
  /\ prog = "sensortower"
  /\ IF "SENSORTOWER_API_KEY" \notin env
       THEN StartExits("start", "exit_config")
       ELSE StartGoes("start", "check_supabase")
            /\ UNCHANGED <<requests_sent, exit_status, summarized>>

\* (variant: only SUPABASE_URL is looked at)
StCheckSupabaseUrlOnly ==
  /\ prog = "sensortower"
  /\ IF "SUPABASE_URL" \notin env
       THEN StartExits("check_supabase", "exit_config")
       ELSE StartGoes("check_supabase", "ensure_table")
            /\ UNCHANGED <<requests_sent, exit_status, summarized>>

\* if not SUPABASE_URL or not SUPABASE_KEY: sys.exit(1)
StCheckSupabase ==
  /\ prog = "sensortower"
  /\ IF "SUPABASE_URL" \notin env \/ "SUPABASE_SERVICE_ROLE_KEY" \notin env
       THEN StartExits("check_supabase", "exit_config")
       ELSE StartGoes("check_supabase", "ensure_table")
            /\ UNCHANGED <<requests_sent, exit_status, summarized>>

\* the rest of main, phase by phase: the table checks, the ranking
\* queries, the lookups and the rows (where a null pct_change raises),
\* the summarizers (which send nothing without GEMINI_API_KEY), the upserts
StRun ==
  /\ prog = "sensortower"
  /\ \/ /\ StartGoes("ensure_table", "phase1")
        /\ requests_sent' = requests_sent \cup {"supabase"}
        /\ UNCHANGED <<exit_status, summarized>>
     \/ /\ StartGoes("phase1", "phase2")
        /\ requests_sent' = requests_sent \cup {"sensortower"}
        /\ UNCHANGED <<exit_status, summarized>>
     \/ /\ StartGoes("phase2", "phase4")
        /\ UNCHANGED <<requests_sent, exit_status, summarized>>
     \/ /\ StartGoes("phase2", "raised")
        /\ exit_status' = 1
        /\ UNCHANGED <<requests_sent, summarized>>
     \/ /\ StartGoes("phase4", "phase5")
        /\ IF "GEMINI_API_KEY" \in env
             THEN /\ requests_sent' = requests_sent \cup {"gemini"}
                  /\ summarized' \in BOOLEAN
             ELSE UNCHANGED <<requests_sent, summarized>>
        /\ UNCHANGED exit_status
     \/ /\ StartGoes("phase5", "done")
        /\ requests_sent' = requests_sent \cup {"supabase"}
        /\ exit_status' = 0
        /\ UNCHANGED summarized

\* if missing: sys.exit(1)
PhValidate ==
  /\ prog = "producthunt"
  /\ IF {"PH_API_KEY", "PH_API_SECRET", "SUPABASE_URL", "SUPABASE_SERVICE_ROLE_KEY"}
          \subseteq env
       THEN StartGoes("start", "token") /\ UNCHANGED <<requests_sent, exit_status, summarized>>
       ELSE StartExits("start", "exit_config")

\* the four steps of the Product Hunt run: each sends a request and ends
\* the process when it is refused
PhRun ==
  /\ prog = "producthunt"
  /\ \E st \in {<<"token", "fetch", "producthunt">>, <<"fetch", "delete", "producthunt">>,
               <<"delete", "insert", "supabase">>, <<"insert", "done", "supabase">>} :
       /\ requests_sent' = requests_sent \cup {st[3]}
       /\ UNCHANGED summarized
       /\ \/ /\ StartGoes(st[1], st[2])
             /\ exit_status' = IF st[2] = "done" THEN 0 ELSE exit_status
          \/ /\ StartGoes(st[1], "exit_failed")
             /\ exit_status' = 1

InitStartup ==
  /\ InitRate
  /\ InitTailIdle
  /\ InitMainPhases
  /\ InitAggIdle
  /\ InitUpIdle
  /\ clock = 0
  /\ job = [t \in Threads |-> "none"]
  /\ InitLookupState
  /\ env \in SUBSET AllEnvNames
  /\ sum_pc = "idle"
  /\ sum_rows = <<>>
  /\ sum_rows0 = <<>>
  /\ sum_result = [kind |-> "none"]
  /\ sum_summaries = [t |-> "list", v |-> <<>>]
  /\ sum_k = 0
  /\ sum_stage = 0
  /\ sum_tried = {}
  /\ prog \in {"sensortower", "producthunt"}
  /\ start_pc = "start"
  /\ requests_sent = {}
  /\ exit_status = -1
  /\ summarized = FALSE

NextStartup == StCheckKey \/ StCheckSupabase \/ StRun \/ PhValidate \/ PhRun

SpecStartup == InitStartup /\ [][NextStartup]_vars

\* ====================================================================
\* call_gemini on its own: one call, with the answers of the model
\* service fixed when the call starts
\* ====================================================================
retries == 3         \* def call_gemini(..., retries=3)

\* elif resp.status_code in (429, 500, 502, 503, 504)
GeminiRetryStatuses == {429, 500, 502, 503, 504}
GeminiOtherStatuses == {400, 403, 404}

\* what one requests.post can end in: a status with a body; code 0 is
\* an exception of the transport (no response at all). A 200 carries
\* well-formed candidates, a JSON value without "candidates", or a body
\* that resp.json() or the indexing of the candidates cannot digest.
GeminiReplies ==
  {[code |-> 200, body |-> b] : b \in {"candidates", "no_candidates", "bad"}}
    \cup {[code |-> c, body |-> "error"] : c \in GeminiRetryStatuses \cup GeminiOtherStatuses}
    \cup {[code |-> 0, body |-> "exception"]}

\* wait = 3 * (2 ** attempt)
GeminiWait(a) == 3 * 2 ^ a

\* a mutant of GmOutcome: every status other than 200 is retried
GmOutcomeRetryAny(resp, a) ==
  IF resp.code = 0 \/ (resp.code = 200 /\ resp.body = "bad")
    THEN [next |-> "loop", sleep |-> IF a < retries - 1 THEN 3 ELSE 0, ret |-> NoResult]
    ELSE IF resp.code = 200
      THEN IF resp.body = "candidates"
             THEN [next |-> "return", sleep |-> 0, ret |-> TextResult("T")]
             ELSE [next |-> "loop", sleep |-> 0, ret |-> NoResult]
      ELSE [next |-> "loop", sleep |-> GeminiWait(a), ret |-> NoResult]

\* the body of the loop after requests.post, for the reply of attempt a:
\* whether the function returns or goes round, the seconds it sleeps
\* first (0 for no sleep) and the value it returns. Everything from the
\* post to the joining of the text parts is inside the try block, so an
\* exception of any of them lands in `except Exception`.
GmOutcome(resp, a) ==
  IF resp.code = 0 \/ (resp.code = 200 /\ resp.body = "bad")
    THEN [next |-> "loop", sleep |-> IF a < retries - 1 THEN 3 ELSE 0, ret |-> NoResult]
    ELSE IF resp.code = 200
      THEN IF resp.body = "candidates"
             THEN [next |-> "return", sleep |-> 0, ret |-> TextResult("T")]
             ELSE [next |-> "loop", sleep |-> 0, ret |-> NoResult]
      ELSE IF resp.code \in GeminiRetryStatuses
        THEN [next |-> "loop", sleep |-> GeminiWait(a), ret |-> NoResult]
        ELSE [next |-> "return", sleep |-> 0, ret |-> NoResult]

notGm == <<netVars, lookupVars, mainVars, aggVars, sumVars, upVars, startVars, p4Vars, rsVars, phVars, rssVars>>

\* if not GEMINI_API_KEY: return None
GmCall ==
  /\ gm_pc = "start"
  /\ IF "GEMINI_API_KEY" \notin env
       THEN gm_pc' = "returned" /\ gm_ret' = NoResult
       ELSE gm_pc' = "loop" /\ gm_ret' = gm_ret
  /\ UNCHANGED <<notGm, gm_attempt, gm_net, gm_log>>

\* one iteration of `for attempt in range(retries)`: the request, the
\* branch on its reply, the sleep of that branch
GmAttempt ==
  /\ gm_pc = "loop"
  /\ gm_attempt < retries
  /\ LET resp == gm_net[gm_attempt + 1]
         out == GmOutcome(resp, gm_attempt)
         sent == Append(gm_log, [op |-> "post", n |-> gm_attempt])
     IN /\ gm_log' = IF out.sleep > 0
                       THEN Append(sent, [op |-> "sleep", n |-> out.sleep])
                       ELSE sent
        /\ IF out.next = "return"
             THEN gm_pc' = "returned" /\ gm_ret' = out.ret /\ gm_attempt' = gm_attempt
             ELSE gm_pc' = "loop" /\ gm_ret' = gm_ret /\ gm_attempt' = gm_attempt + 1
  /\ UNCHANGED <<notGm, gm_net>>

\* the loop is over: return None
GmExhausted ==
  /\ gm_pc = "loop"
  /\ gm_attempt = retries
  /\ gm_pc' = "returned"
  /\ gm_ret' = NoResult
  /\ UNCHANGED <<notGm, gm_attempt, gm_net, gm_log>>

InitGemini ==
  /\ InitRate
  /\ InitMainPhases
  /\ InitAggIdle
  /\ InitUpIdle
  /\ InitStartIdle
  /\ InitP4Idle
  /\ InitRsIdle
  /\ InitPhIdle
  /\ InitRssIdle
  /\ clock = 0
  /\ job = [t \in Threads |-> "none"]
  /\ InitLookupState
  /\ env \in {EnvNames, EnvNames \ {"GEMINI_API_KEY"}}
  /\ sum_pc = "idle"
  /\ sum_rows = <<>>
  /\ sum_rows0 = <<>>
  /\ sum_result = [kind |-> "none"]
  /\ sum_summaries = [t |-> "list", v |-> <<>>]
  /\ sum_k = 0
  /\ sum_stage = 0
  /\ sum_tried = {}
  /\ gm_pc = "start"
  /\ gm_attempt = 0
  /\ gm_net \in [1 .. retries -> GeminiReplies]
  /\ gm_log = <<>>
  /\ gm_ret = [kind |-> "unset"]

NextGemini == GmCall \/ GmAttempt \/ GmExhausted

SpecGemini == InitGemini /\ [][NextGemini]_vars

\* ====================================================================
\* phases 4 and 5 of main on their own, with summarizer tasks that raise
\* or outlast the 120 s of future.result
\* ====================================================================
\* what parallel_lookup_apps returned in phase 2
P4Infos ==
  ("A" :> [BuildResult(UnifiedCatalogue("A")) EXCEPT !.description = "Alpha subtitle"])
    @@ ("B" :> Sentinel)

\* what the four queries returned: the growth list came, the delta query
\* failed, the downloads and the advertiser list came or did not
P4Answers ==
  {Answers(d, GrowthThree, None, a) : d \in {None, DownloadsTwo}, a \in {None, AdvTwo}}

\* the rows phase 3 builds from them
P4Built(n) ==
  IF n = "advertisers" THEN AdvLoop(ItemsOf(n, api_data), 1, P4Infos, <<>>).rows
  ELSE MetricRows(ItemsOf(n, api_data), P4Infos)

notP4 == <<netVars, lookupVars, aggVars, sumVars, upVars, startVars, gmVars, rsVars, phVars, rssVars>>

\* the summaries a task has written when its loop raises: none (the
\* reply was no list) or those before the element that is no object
WrittenBeforeRaise == {<<>>, <<[index |-> 1, summary |-> "S1"]>>}

\* a summarizer task ends with an exception of its loop over summaries
SumRaise(n) ==
  /\ summarizer[n] = "running"
  /\ \E done \in WrittenBeforeRaise :
       rows' = [rows EXCEPT ![n] = ApplySummaries(@, done)]
  /\ summarizer' = [summarizer EXCEPT ![n] = "raised"]
  /\ UNCHANGED <<notP4, p4Vars, mpc, step, api_data, app_infos, tables>>

\* how future.result(timeout=120) ends for a task in the given state
ResultOf(state) ==
  CASE state = "done" -> "result"
    [] state = "raised" -> "exception"
    [] state = "running" -> "timeout"
    [] OTHER -> "none"

\* (variant: future.result is called outside a try block)
P4ResultNoCatch ==
  /\ mpc = "await"
  /\ step < 4
  /\ LET n == ListNames[step + 1]
     IN /\ p4_got' = [p4_got EXCEPT ![n] = ResultOf(summarizer[n])]
        /\ mpc' = IF ResultOf(summarizer[n]) \in {"exception", "timeout"} THEN "raised" ELSE mpc
  /\ step' = step + 1
  /\ UNCHANGED <<notP4, p4_calls, api_data, app_infos, rows, summarizer, tables>>

\* one turn of `for name, future in futures.items()`: the result is the
\* list the task was given, assigned back to its name; an exception of
\* the task or the TimeoutError of a task that still runs is caught and
\* printed. A list without a task has no turn of its own.
P4Result ==
  /\ mpc = "await"
  /\ step < 4
  /\ LET n == ListNames[step + 1]
     IN p4_got' = [p4_got EXCEPT ![n] = ResultOf(summarizer[n])]
  /\ step' = step + 1
  /\ UNCHANGED <<notP4, p4_calls, mpc, api_data, app_infos, rows, summarizer, tables>>

\* the with-block of the executor ends: shutdown(wait=True) returns once
\* every task has finished, also one whose result timed out
P4Join ==
  /\ mpc = "await"
  /\ step = 4
  /\ \A n \in Lists : summarizer[n] # "running"
  /\ mpc' = "phase5"
  /\ step' = 1
  /\ UNCHANGED <<notP4, p4Vars, api_data, app_infos, rows, summarizer, tables>>

\* if <name>_rows: upsert_rows(<table>, <name>_rows), for the four lists
P4Upsert ==
  /\ mpc = "phase5"
  /\ LET n == UpsertOrder[step]
         t == TableOf[n]
     IN IF rows[n] = <<>>
          THEN tables' = tables /\ p4_calls' = p4_calls
          ELSE /\ p4_calls' = Append(p4_calls, n)
               /\ \E deleted, inserted \in BOOLEAN :
                    tables' = [tables EXCEPT
                                 ![t] = (IF deleted THEN <<>> ELSE @)
                                        \o (IF inserted THEN rows[n] ELSE <<>>)]
  /\ IF step < 4
       THEN step' = step + 1 /\ mpc' = mpc
       ELSE step' = 0 /\ mpc' = "done"
  /\ UNCHANGED <<notP4, p4_got, api_data, app_infos, rows, summarizer>>

InitPhase4 ==
  /\ InitRate
  /\ InitAggIdle
  /\ InitSumIdle
  /\ InitUpIdle
  /\ InitStartIdle
  /\ InitGmIdle
  /\ InitP4Idle
  /\ InitRsIdle
  /\ InitPhIdle
  /\ InitRssIdle
  /\ clock = 0
  /\ job = [t \in Threads |-> "none"]
  /\ InitLookupState
  /\ mpc = "phase4"
  /\ step = 0
  /\ api_data \in P4Answers
  /\ app_infos = P4Infos
  /\ rows = [n \in Lists |-> P4Built(n)]
  /\ summarizer = [n \in Lists |-> "none"]
  /\ tables = [t \in TableNames |-> <<>>]

NextPhase4 ==
  \/ MainSubmit
  \/ \E n \in Lists : SumFinish(n)
  \/ \E n \in Lists : SumRaise(n)
  \/ P4Result
  \/ P4Join
  \/ P4Upsert

SpecPhase4 == InitPhase4 /\ [][NextPhase4]_vars

\* ====================================================================
\* one resolution by lookup_app on its own: the st_get calls it makes,
\* for every shape of the unified data's sub_apps
\* ====================================================================
MaxSubs == 2

\* a sub-app of the unified data: its platform, and its identifier or ""
SubApps == {[os |-> o, id |-> d] : o \in {"ios", "android", "other"}, d \in {"", "x1", "x2"}}

SubAppLists == UNION {[1 .. n -> SubApps] : n \in 0 .. MaxSubs}

\* what the unified call can return: None, a payload that is no dict,
\* or the app's data
ResolveAnswers ==
  {[kind |-> "none"], [kind |-> "list"]}
    \cup {[kind |-> "dict", data |-> [name |-> "N", sub_apps |-> l]] : l \in SubAppLists}

notRs == <<netVars, lookupVars, mainVars, aggVars, sumVars, upVars, startVars, gmVars, p4Vars, phVars, rssVars>>

\* data = st_get(f"/v1/unified/apps/{app_id_str}", {})
RsUnified ==
  /\ rs_pc = "start"
  /\ rs_calls' = Append(rs_calls, [endpoint |-> "unified", id |-> "A"])
  /\ rs_pc' = IF rs_data.kind = "dict" THEN "built" ELSE "store"
  /\ UNCHANGED <<notRs, rs_data>>

\* if sub_apps: target_sub = ios_sub or android_sub; if target_sub:
\* sub_id = target_sub.get("id", ""); if sub_id:
\* platform_data = st_get(f"/v1/{platform}/apps/{sub_id}", {})
RsPlatform ==
  /\ rs_pc = "built"
  /\ LET sub_apps == Get(rs_data.data, "sub_apps", <<>>)
         target_sub == TargetSub(rs_data.data)
     IN rs_calls' = IF PlatformTarget(rs_data.data) # ""
                      THEN Append(rs_calls, [endpoint |-> Get(sub_apps[target_sub], "os", "ios"),
                                             id |-> PlatformTarget(rs_data.data)])
                      ELSE rs_calls
  /\ rs_pc' = "store"
  /\ UNCHANGED <<notRs, rs_data>>

\* with _cache_lock: _app_cache[app_id_str] = result; return result.copy()
RsStore ==
  /\ rs_pc = "store"
  /\ rs_pc' = "returned"
  /\ UNCHANGED <<notRs, rs_data, rs_calls>>

InitResolve ==
  /\ InitRate
  /\ InitMainPhases
  /\ InitAggIdle
  /\ InitSumIdle
  /\ InitUpIdle
  /\ InitStartIdle
  /\ InitGmIdle
  /\ InitP4Idle
  /\ InitPhIdle
  /\ InitRssIdle
  /\ clock = 0
  /\ job = [t \in Threads |-> "none"]
  /\ InitLookupState
  /\ rs_pc = "start"
  /\ rs_data \in ResolveAnswers
  /\ rs_calls = <<>>

NextResolve == RsUnified \/ RsPlatform \/ RsStore

SpecResolve == InitResolve /\ [][NextResolve]_vars

\* ====================================================================
\* fetch_producthunt_top.py: one run of main
\* ====================================================================
MaxPosts == 2

\* a node of the posts reply: slug and website can be empty
PhNodes ==
  {[name |-> n, slug |-> g, url |-> "u-" \o n, website |-> w, votesCount |-> 7] :
     n \in {"P", "Q"}, g \in {"", "p"}, w \in {"", "w"}}

PhPosts == UNION {[1 .. n -> PhNodes] : n \in 0 .. MaxPosts}

\* the replies of the four requests; code 0 is an exception of requests
\* (timeout, connection error)
PhTokenReplies ==
  {[code |-> 200, token |-> TRUE], [code |-> 200, token |-> FALSE],
   [code |-> 401, token |-> FALSE], [code |-> 0, token |-> FALSE]}

PhFetchReplies ==
  {[code |-> 200, errors |-> FALSE, posts |-> l] : l \in PhPosts}
    \cup {[code |-> 200, errors |-> TRUE, posts |-> <<>>],
          [code |-> 500, errors |-> FALSE, posts |-> <<>>],
          [code |-> 0, errors |-> FALSE, posts |-> <<>>]}

PhDeleteCodes == {200, 204, 403, 500, 0}

PhInsertCodes == {200, 201, 400, 0}

\* the row main stores for the i-th node of the reply
PhRow(p, i) ==
  [rank |-> i,
   name |-> p.name,
   url |-> IF p.slug # "" THEN "https://www.producthunt.com/posts/" \o p.slug ELSE p.url,
   website_url |-> IF p.website # "" THEN p.website ELSE p.url,
   votes_count |-> p.votesCount]

\* for i, edge in enumerate(posts, 1): results.append({...})
PhResults(posts) == [i \in 1 .. Len(posts) |-> PhRow(posts[i], i)]

\* rows a former run left in the table; the database numbers the rows
\* it stores from 1 on
PhOldRows ==
  <<[id |-> 1, row |-> [rank |-> 1, name |-> "Old1", url |-> "o1", website_url |-> "o1",
                         votes_count |-> 3]],
    [id |-> 2, row |-> [rank |-> 2, name |-> "Old2", url |-> "o2", website_url |-> "o2",
                         votes_count |-> 2]]>>

\* DELETE ...?id=gt.0 carried out by the server
PhDeleted(t) == SelectSeq(t, LAMBDA r : ~(r.id > 0))

\* POST of the rows carried out by the server: all of them, numbered on
PhInserted(t, new) ==
  LET base == IF t = <<>> THEN Len(ph_old) ELSE t[Len(t)].id
  IN t \o [i \in 1 .. Len(new) |-> [id |-> base + i, row |-> new[i]]]

notPh == <<netVars, lookupVars, mainVars, aggVars, sumVars, upVars, startVars, gmVars, p4Vars, rsVars, rssVars>>

\* main: if missing: sys.exit(1)
HuntValidate ==
  /\ ph_pc = "start"
  /\ \E missing \in BOOLEAN :
       /\ ph_pc' = IF missing THEN "exit1" ELSE "auth"
       /\ ph_log' = Append(ph_log, [req |-> "validate", ok |-> ~missing])
  /\ UNCHANGED <<notPh, ph_products, ph_table, ph_old>>

\* token = get_ph_token(): raise_for_status and resp.json()["access_token"]
\* raise, and nothing catches
GetPhToken ==
  /\ ph_pc = "auth"
  /\ \E resp \in PhTokenReplies :
       /\ ph_log' = Append(ph_log, [req |-> "auth", ok |-> resp.code = 200 /\ resp.token])
       /\ ph_pc' = IF resp.code = 200 /\ resp.token THEN "fetch" ELSE "exit1"
  /\ UNCHANGED <<notPh, ph_products, ph_table, ph_old>>

\* products = fetch_top_products(token, count=15)
FetchTopProducts ==
  /\ ph_pc = "fetch"
  /\ \E resp \in PhFetchReplies :
       LET ok == resp.code = 200 /\ ~resp.errors
       IN /\ ph_log' = Append(ph_log, [req |-> "fetch", ok |-> ok, posts |-> resp.posts])
          /\ ph_pc' = IF ok THEN "delete" ELSE "exit1"
          /\ ph_products' = IF ok THEN PhResults(resp.posts) ELSE ph_products
  /\ UNCHANGED <<notPh, ph_table, ph_old>>

\* (variant: a refused delete is printed and the run goes on)
DeleteAllRowsNoExit ==
  /\ ph_pc = "delete"
  /\ \E code \in PhDeleteCodes :
       /\ ph_log' = Append(ph_log, [req |-> "delete", ok |-> code \in {200, 204}])
       /\ ph_pc' = IF code = 0 THEN "exit1" ELSE "insert"
       /\ \/ code \in {200, 204} /\ ph_table' = PhDeleted(ph_table)
          \/ code \notin {200, 204} /\ ph_table' = ph_table
          \/ code = 0 /\ ph_table' = PhDeleted(ph_table)
  /\ UNCHANGED <<notPh, ph_products, ph_old>>

\* delete_all_rows(): if resp.status_code in (200, 204) ... else sys.exit(1);
\* when the request raised the server may have deleted the rows or not
DeleteAllRows ==
  /\ ph_pc = "delete"
  /\ \E code \in PhDeleteCodes :
       /\ ph_log' = Append(ph_log, [req |-> "delete", ok |-> code \in {200, 204}])
       /\ ph_pc' = IF code \in {200, 204} THEN "insert" ELSE "exit1"
       /\ \/ code \in {200, 204} /\ ph_table' = PhDeleted(ph_table)
          \/ code \notin {200, 204} /\ ph_table' = ph_table
          \/ code = 0 /\ ph_table' = PhDeleted(ph_table)
  /\ UNCHANGED <<notPh, ph_products, ph_old>>

\* insert_rows(products): if resp.status_code in (200, 201) ... else sys.exit(1)
InsertRows ==
  /\ ph_pc = "insert"
  /\ \E code \in PhInsertCodes :
       /\ ph_log' = Append(ph_log, [req |-> "insert", ok |-> code \in {200, 201}])
       /\ ph_pc' = IF code \in {200, 201} THEN "done" ELSE "exit1"
       /\ \/ code \in {200, 201} /\ ph_table' = PhInserted(ph_table, ph_products)
          \/ code \notin {200, 201} /\ ph_table' = ph_table
          \/ code = 0 /\ ph_table' = PhInserted(ph_table, ph_products)
  /\ UNCHANGED <<notPh, ph_products, ph_old>>

InitHunt ==
  /\ InitRate
  /\ InitMainPhases
  /\ InitAggIdle
  /\ InitSumIdle
  /\ InitUpIdle
  /\ InitStartIdle
  /\ InitGmIdle
  /\ InitP4Idle
  /\ InitRsIdle
  /\ InitRssIdle
  /\ clock = 0
  /\ job = [t \in Threads |-> "none"]
  /\ InitLookupState
  /\ ph_pc = "start"
  /\ ph_products = <<>>
  /\ ph_old \in {<<>>, PhOldRows}
  /\ ph_table = ph_old
  /\ ph_log = <<>>

NextHunt == HuntValidate \/ GetPhToken \/ FetchTopProducts \/ DeleteAllRows \/ InsertRows

SpecHunt == InitHunt /\ [][NextHunt]_vars

\* ====================================================================
\* generate_rss.py: generate_rss_xml(products, "public/feed.xml")
\* ====================================================================
MaxProducts == 2

\* a null of the JSON the table was read as
RssNull == "<null>"

\* `if x:` on a string or a null
RssTrue(x) == x # "" /\ x # RssNull

\* the rows of the table as fetch_products_from_supabase returns them:
\* website_url and url can be empty, null, or the same address; the
\* first-ranked one has no tagline
RssProducts ==
  {[rank |-> r, name |-> "N", tagline |-> IF r = 1 THEN "" ELSE "tag", website_url |-> w, url |-> u] :
     r \in {1, 2}, w \in {"", RssNull, "site", "ph"}, u \in {"", RssNull, "ph"}}

RssInputs == UNION {[1 .. n -> RssProducts] : n \in 0 .. MaxProducts}

\* (variant: the Product Hunt page is preferred)
LinkUrlPhFirst(website_url, ph_url) == IF RssTrue(ph_url) THEN ph_url ELSE website_url

\* link_url = website_url if website_url else ph_url
LinkUrl(website_url, ph_url) == IF RssTrue(website_url) THEN website_url ELSE ph_url

\* desc_parts: what the description is joined from, part by part
DescParts(product) ==
  LET link_url == LinkUrl(product.website_url, product.url)
  IN (IF RssTrue(product.tagline) THEN <<"tagline">> ELSE <<>>)
       \o (IF RssTrue(product.url) /\ link_url # product.url
             THEN <<"View on Product Hunt">> ELSE <<>>)

\* the item element one turn of the loop appends to the channel
RssItem(product) ==
  LET link_url == LinkUrl(product.website_url, product.url)
  IN [title |-> <<product.rank, product.name, product.tagline>>,
      link |-> link_url,
      description |-> DescParts(product),
      guid |-> IF RssTrue(product.url) THEN product.url ELSE link_url]

notRss == <<netVars, lookupVars, mainVars, aggVars, sumVars, upVars, startVars, gmVars, p4Vars, rsVars, phVars>>

\* for product in products: item = SubElement(channel, "item") ...
RssLoop ==
  /\ rss_pc = "loop"
  /\ Len(rss_items) < Len(rss_products)
  /\ rss_items' = Append(rss_items, RssItem(rss_products[Len(rss_items) + 1]))
  /\ UNCHANGED <<notRss, rss_pc, rss_products>>

\* the loop is over: indent, tostring, and the file is written
RssWrite ==
  /\ rss_pc = "loop"
  /\ Len(rss_items) = Len(rss_products)
  /\ rss_pc' = "written"
  /\ UNCHANGED <<notRss, rss_products, rss_items>>

InitRss ==
  /\ InitRate
  /\ InitMainPhases
  /\ InitAggIdle
  /\ InitSumIdle
  /\ InitUpIdle
  /\ InitStartIdle
  /\ InitGmIdle
  /\ InitP4Idle
  /\ InitRsIdle
  /\ InitPhIdle
  /\ clock = 0
  /\ job = [t \in Threads |-> "none"]
  /\ InitLookupState
  /\ rss_pc = "loop"
  /\ rss_products \in RssInputs
  /\ rss_items = <<>>

NextRss == RssLoop \/ RssWrite

SpecRss == InitRss /\ [][NextRss]_vars

\* ================================================================ claims

AfterBuild == {"phase4", "await", "phase5", "done"}
AfterLookup == AfterBuild \cup {"raised"}

\* row r carries the rank, the identifier and the metrics of item number k
\* of list n
RowIsItem(n, r, k, item) ==
  /\ r.rank = k
  /\ r.app_id = ItemId(item)
  /\ IF n = "advertisers"
       THEN r.sov = Get(item, "sov", 0)
       ELSE LET agg == aggregate_entities(item)
            IN /\ r.downloads = agg.downloads
               /\ r.previous_downloads = agg.prev_downloads
               /\ r.download_delta = agg.delta
               /\ r.download_pct_change = PctTimes100(agg.pct_change[1])

RowsAreItems(n, rs) ==
  LET items == ItemsOf(n, api_data)
  IN /\ Len(rs) = Len(items)
     /\ \A k \in 1 .. Len(rs) : RowIsItem(n, rs[k], k, items[k])

\* C1: in main, for every list, row k has rank k and carries the app_id and
\* the metrics of item k of the list as the API returned it (capped at 50),
\* whatever the order in which the lookups completed and the summarizers
\* ran; this holds for the rows main holds from phase 3 on and for the rows
\* a table has received.
C1_RowsFollowApiOrder ==
  /\ mpc \in AfterBuild => \A n \in Lists : RowsAreItems(n, rows[n])
  /\ mpc \notin AfterBuild => \A n \in Lists : rows[n] = <<>>
  /\ \A n \in Lists : tables[TableOf[n]] # <<>> => RowsAreItems(n, tables[TableOf[n]])

\* the run has ended with the growth rows stored in rank order B, A, no-id
\* although A's lookup completed before B's, and after a summarizer wrote
\* into the rows
C1_Witness ==
  /\ mpc = "done"
  /\ collect_log = <<"A", "B">>
  /\ Len(tables["download_percent_rank_7d"]) = 3
  /\ tables["download_percent_rank_7d"][1].app_id = "B"
  /\ tables["download_percent_rank_7d"][1].app_description = "S1"
  /\ tables["download_percent_rank_7d"][2].app_id = "A"
  /\ tables["download_percent_rank_7d"][3].app_id = ""

\* C3: main resolves exactly the distinct non-empty identifiers of the four
\* lists (each capped at 50), each once: while the lookups run no identifier
\* outside that set is resolved and none twice, and from the end of phase 2
\* on the count is one for each identifier of the set and stays so through
\* row building and the later phases; the empty identifier is never
\* resolved.
C3_ResolvesDistinctIdsOnce ==
  LET expected == AllAppIds(api_data)
  IN /\ \A id \in AllIds : net_count[id] <= (IF id \in expected THEN 1 ELSE 0)
     /\ net_count[""] = 0
     /\ mpc \in AfterLookup =>
          \A id \in AllIds : net_count[id] = (IF id \in expected THEN 1 ELSE 0)
     /\ mpc \in AfterLookup => dpc = "returned"

\* the run has ended; "A" was in three lists (fifty times in one of them,
\* twice in another, beside an item without identifier) and was resolved
\* once; "B", at position 51 only, was not resolved
C3_Witness ==
  /\ mpc = "done"
  /\ api_data["downloads"] = JsonList(LongList)
  /\ api_data["advertisers"] = AdvNameless
  /\ Len(rows["downloads"]) = CAP
  /\ net_count["A"] = 1
  /\ net_count["B"] = 0

InRateLock == {"rl_now", "rl_sleep", "rl_record", "rl_release"}

\* C4: grants of _rate_limited_wait are serialized (at most one thread is
\* between acquiring and releasing _st_rate_lock, and that thread is the
\* holder), and two successive recorded values of _st_last_call are at
\* least ST_MIN_INTERVAL apart.
C4_GrantsSerializedAndSpaced ==
  /\ Cardinality({t \in Threads : pc[t] \in InRateLock}) <= 1
  /\ \A t \in Threads : pc[t] \in InRateLock => st_rate_lock = t
  /\ n_grants >= 2 => st_last_call - prev_grant >= ST_MIN_INTERVAL

\* a second grant has been recorded after its thread had to sleep while
\* another thread was waiting for the lock
C4_Witness ==
  /\ n_grants >= 2
  /\ \E t, u \in Threads :
       /\ pc[t] = "rl_release"
       /\ now[t] - prev_grant < ST_MIN_INTERVAL
       /\ pc[u] = "rl_enter"

\* C5: every request st_get sends is preceded by a rate-limiter grant of
\* its own, obtained in the same attempt: a call never has more requests
\* than grants, and when it is about to send, the grant of this attempt is
\* the one not yet used.
C5_GrantBeforeEveryRequest ==
  \A t \in Threads :
    /\ requests[t] <= grants[t]
    /\ grants[t] <= requests[t] + 1
    /\ pc[t] = "sg_request" =>
         /\ grants[t] = requests[t] + 1
         /\ grants[t] = attempt[t] + 1

\* a retry (third attempt) is about to be sent, after its own grant
C5_Witness ==
  \E t \in Threads :
    pc[t] = "sg_request" /\ attempt[t] = 2 /\ grants[t] = 3 /\ requests[t] = 2

Succeeded(r) == r.code = 200 /\ r.body \in Payloads

\* C6: st_get sends at most 5 requests per call, ends at the first attempt
\* that answers 200 with a JSON body and returns that body, returns None
\* only after 5 attempts none of which succeeded, and never raises.
C6_BoundedAttemptsNoRaise ==
  \A t \in Threads :
    /\ requests[t] <= MaxAttempts
    /\ pc[t] # "raised"
    /\ Succeeded(status[t]) => pc[t] = "done" /\ result[t] = status[t].body
    /\ pc[t] = "done" =>
         \/ Succeeded(status[t]) /\ result[t] = status[t].body
         \/ /\ result[t] = "None"
            /\ requests[t] = MaxAttempts
            /\ ~Succeeded(status[t])

\* a call has returned None after a fifth attempt whose 200 body did not parse
C6_Witness ==
  \E t \in Threads :
    /\ pc[t] = "done"
    /\ result[t] = "None"
    /\ requests[t] = MaxAttempts
    /\ status[t] = [code |-> 200, body |-> "unparseable"]

\* a call has returned the payload of a 200 answer that came on a retry
C6_WitnessRetrySucceeds ==
  \E t \in Threads :
    pc[t] = "done" /\ result[t] \in Payloads /\ requests[t] = 3

\* C7: a 4xx answer other than 429 ends the call at once: no backoff and no
\* further attempt follows it.
C7_ClientErrorEndsCall ==
  \A t \in Threads :
    status[t].code = 404 =>
      \/ pc[t] = "done" /\ result[t] = "None"
      \/ pc[t] = "sg_loop" /\ attempt[t] >= MaxAttempts

\* two tasks of the running call that both missed the cache for one identifier
BothMissed(i, j) ==
  /\ i # j
  /\ task[i].aid = task[j].aid
  /\ task[i].data # NoAnswer
  /\ task[j].data # NoAnswer

\* C2: the unified-app resolution is performed at most once per identifier
\* in a run, whatever the calls and the interleaving of the workers.
C2_AtMostOneFetchPerKey ==
  \A id \in LookupIds : net_count[id] <= 1

C9_CacheWriteOnce ==
  [][\A id \in DOMAIN app_cache :
       id \in DOMAIN app_cache' /\ app_cache'[id] = app_cache[id]]_vars

\* C11: a lookup_app call that began after an earlier call for the same
\* identifier had returned makes no request of its own and returns a record
\* equal, field for field, to the one the earlier call returned.
C11_SecondLookupSameRecord ==
  \A j \in Tasks :
    \A earlier \in task[j].prior :
      /\ task[j].data = NoAnswer
      /\ task[j].pc \in {"start", "check", "finished"}
      /\ task[j].pc = "finished" => task[j].ret = earlier.ret

\* the unified request of task i failed: st_get returned None or a payload
\* that is not an object
UnifiedFailed(i) == task[i].data.kind \in {"none", "list"}

\* C12: a lookup_app call whose unified request failed returns the sentinel
\* record and stores it, and every call for the same identifier that begins
\* after it has returned makes no request and returns the sentinel.
C12_FailureCachedAsSentinel ==
  /\ \A i \in Tasks :
       UnifiedFailed(i) =>
         /\ task[i].pc \in {"store", "write", "finished"}
         /\ task[i].res = Sentinel
         /\ task[i].pc = "finished" => task[i].ret = Sentinel
  /\ \A j \in Tasks :
       \A earlier \in task[j].prior :
         earlier.failed =>
           /\ task[j].data = NoAnswer
           /\ task[j].pc = "finished" => task[j].ret = Sentinel

IdSet(seq) == {seq[k] : k \in 1 .. Len(seq)}

\* the identifier had its cache entry before the running call began
CachedBefore(id) == id \in DOMAIN writer /\ writer[id][1] < calls_made

C13_Partition ==
  /\ dpc \in {"pl_loop", "pl_check"} =>
       /\ task = <<>>
       /\ DOMAIN results \subseteq DOMAIN app_cache
       /\ IdSet(uncached_ids) \cap DOMAIN app_cache = {}
       /\ \A k \in 1 .. idx - 1 :
            app_ids[k] \in DOMAIN results \cup IdSet(uncached_ids)
  /\ dpc = "pl_collect" =>
       /\ Len(task) = Len(uncached_ids)
       /\ \A i \in Tasks : task[i].aid = uncached_ids[i] /\ ~CachedBefore(task[i].aid)

C13_Return ==
  (dpc # "returned" /\ dpc' = "returned") =>
    /\ \A i \in Tasks : task[i].pc = "finished"
    /\ DOMAIN results' = IdSet(app_ids)
    /\ \A id \in DOMAIN results' : DOMAIN results'[id] = SixFields

\* C13: parallel_lookup_apps sorts its ids into cached ones (answered from
\* the cache) and uncached ones, submits one task per uncached id and none
\* for an id that was cached, and returns only when every submitted task has
\* finished, with a mapping whose keys are exactly the ids passed and whose
\* values are complete six-field records.
C13_DispatcherContract == []C13_Partition /\ [][C13_Return]_vars

\* a second call has returned a record for "A", answered from the cache,
\* and one for "B", looked up by a task of this call
C13_Witness ==
  /\ dpc = "returned"
  /\ calls_made = 2
  /\ DOMAIN results = {"A", "B"}
  /\ DOMAIN writer = {"A", "B"}
  /\ writer["A"][1] = 0
  /\ writer["B"][1] = 1
  /\ net_count["A"] = 1
  /\ net_count["B"] = 1

\* task i is the only task of the running call for its identifier
OnlyTaskFor(i) == \A j \in Tasks : task[j].aid = task[i].aid => j = i

C14_Collect ==
  (dpc = "pl_collect" /\ dpc' = "pl_collect") =>
    \A i \in Tasks :
      (task[i].raised /\ ~task[i].collected /\ task'[i].collected) =>
        /\ task[i].aid \in DOMAIN results'
        /\ results'[task[i].aid] = Sentinel
        /\ \A id \in DOMAIN results \ {task[i].aid} :
             id \in DOMAIN results' /\ results'[id] = results[id]

C14_Return ==
  (dpc = "pl_collect" /\ dpc' = "returned") =>
    /\ DOMAIN results' = IdSet(app_ids)
    /\ \A i \in Tasks :
         OnlyTaskFor(i) =>
           results'[task[i].aid] = IF task[i].raised THEN Sentinel ELSE task[i].ret

C15_AtMostFiveInProgress ==
  Cardinality({i \in Tasks : Running(i)}) <= MAX_WORKERS

\* five calls are in progress and a sixth one is waiting for a worker
C15_Witness ==
  /\ Cardinality({i \in Tasks : Running(i)}) = MAX_WORKERS
  /\ \E i \in Tasks : task[i].pc = "queued"

\* C16: once main is past the lookups, every list has as many rows as it
\* has items (after the cap), an item without usable identifier has its row
\* with the sentinel metadata, and the summarizers and the storage phase
\* leave the number of rows as it is.
C16_RowCountPreserved ==
  mpc \in AfterLookup =>
    \A n \in Lists :
      /\ Len(rows[n]) = Len(ItemsOf(n, api_data))
      /\ \A k \in 1 .. Len(rows[n]) :
           (n # "advertisers" /\ rows[n][k].app_id \notin DOMAIN app_infos) =>
             /\ rows[n][k].app_name = DefaultInfo.name
             /\ rows[n][k].publisher = DefaultInfo.publisher
             /\ rows[n][k].icon_url = DefaultInfo.icon_url
             /\ rows[n][k].ios_store_url = DefaultInfo.ios_store_url
             /\ rows[n][k].android_store_url = DefaultInfo.android_store_url

\* C17: in main, the four ranking queries are made one after another, in
\* the order downloads, growth, delta, advertisers, and all four have
\* returned before parallel_lookup_apps is called or any lookup task exists;
\* rows exist only once parallel_lookup_apps has returned with every task
\* finished; summarizers exist only after the rows were built; and the
\* storage phase begins, and a table changes, only when no summarizer task
\* is still running.
C17_PhasesInOrder ==
  /\ \A k \in 1 .. 4 :
       api_data[ListNames[k]] # Unfetched
         <=> (mpc = "phase1" /\ k < step) \/ mpc \notin {"start", "phase1"}
  /\ (dpc # "idle" \/ task # <<>> \/ \E id \in AllIds : net_count[id] > 0)
       => mpc \notin {"start", "phase1", "phase2"}
  /\ (\E n \in Lists : rows[n] # <<>>)
       => /\ dpc = "returned"
          /\ \A i \in Tasks : task[i].pc = "finished"
          /\ mpc \in AfterBuild
  /\ (\E n \in Lists : summarizer[n] # "none") => mpc \in {"await", "phase5", "done"}
  /\ (mpc \in {"phase5", "done"} \/ \E t \in TableNames : tables[t] # <<>>)
       => /\ \A n \in Lists : summarizer[n] # "running"
          /\ mpc \in {"phase5", "done"}

\* the first table has received its rows in a run in which both identifiers
\* were looked up and all four summarizers ran
C17_Witness ==
  /\ mpc = "phase5"
  /\ tables["download_rank_7d"] # <<>>
  /\ \A n \in Lists : summarizer[n] = "done"
  /\ net_count["A"] = 1
  /\ net_count["B"] = 1

\* ------------------------------------------------ aggregate_entities
HasEntities(it) == "entities" \in DOMAIN it /\ it.entities # <<>>

\* a fragment's value: the one under its units_ key when it has that key,
\* else the one under the short key; null when neither is there
Field(f, k1, k2) ==
  IF k1 \in DOMAIN f THEN f[k1] ELSE IF k2 \in DOMAIN f THEN f[k2] ELSE Null

Counted(v) == IF v = Null THEN 0 ELSE v[1]

RECURSIVE TotalOf(_, _, _, _)
TotalOf(es, n, k1, k2) ==
  IF n = 0 THEN 0 ELSE Counted(Field(es[n], k1, k2)) + TotalOf(es, n - 1, k1, k2)

TotalAbsolute(es) == TotalOf(es, Len(es), "units_absolute", "absolute")
TotalPrev(es) == TotalOf(es, Len(es), "comparison_units_value", "comparison_units_value")
TotalDelta(es) == TotalOf(es, Len(es), "units_delta", "delta")

\* the fraction p is the quotient n / d
IsQuotient(p, n, d) == p.den # 0 /\ p.num * d = n * p.den

\* C18: for an item with at least one fragment, pct_change is the total
\* delta over the total previous value when that total is positive, and
\* otherwise the first fragment's transformed delta, 0 when that is absent
\* or null.
C18_PctFromTotals ==
  (agg_out.computed /\ HasEntities(agg_item)) =>
    LET es == agg_item.entities
        p == agg_out.value.pct_change
        td == Field(es[1], "units_transformed_delta", "transformed_delta")
    IN /\ p # Null
       /\ IF TotalPrev(es) > 0
            THEN IsQuotient(p[1], TotalDelta(es), TotalPrev(es))
            ELSE IF td = Null THEN IsQuotient(p[1], 0, 1)
                 ELSE IsQuotient(p[1], td[1].num, td[1].den)

\* two fragments, each with delta 70 over a previous 700: 140 / 1400 = 0.1
C18_Witness ==
  /\ agg_out.computed
  /\ HasEntities(agg_item)
  /\ Len(agg_item.entities) = 2
  /\ TotalDelta(agg_item.entities) = 140
  /\ TotalPrev(agg_item.entities) = 1400
  /\ IsQuotient(agg_out.value.pct_change[1], 1, 10)

\* r is the integer nearest to total / 7
NearestToSeventh(r, total) ==
  LET diff == DAYS * r - total
  IN 2 * (IF diff < 0 THEN 0 - diff ELSE diff) < DAYS

\* C19: for an item with at least one fragment, downloads, prev_downloads
\* and delta are each the integer nearest to a seventh of the sum of the
\* fragments' values, absent and null values counting as 0.
C19_DailyAverages ==
  (agg_out.computed /\ HasEntities(agg_item)) =>
    LET es == agg_item.entities
        v == agg_out.value
    IN /\ NearestToSeventh(v.downloads, TotalAbsolute(es))
       /\ NearestToSeventh(v.prev_downloads, TotalPrev(es))
       /\ NearestToSeventh(v.delta, TotalDelta(es))

\* the fragments (70, 70, 0) and (140, 140, 0) give 30, 30, 0 and 0
C19_Witness ==
  /\ agg_out.computed
  /\ agg_item = [entities |-> <<Entity(70, 70, 0), Entity(140, 140, 0)>>]
  /\ agg_out.value.downloads = 30
  /\ agg_out.value.prev_downloads = 30
  /\ agg_out.value.delta = 0
  /\ IsQuotient(agg_out.value.pct_change[1], 0, 1)

\* a negative total delta is rounded to the nearest integer too
C19_NegativeDeltaReached ==
  /\ agg_out.computed
  /\ HasEntities(agg_item)
  /\ TotalDelta(agg_item.entities) = -150
  /\ agg_out.value.delta = -21

ValueKeys ==
  {"units_absolute", "absolute", "comparison_units_value", "units_delta", "delta",
   "units_transformed_delta", "transformed_delta"}

\* the single fragment that holds an item's own top-level values
TopLevelFragment(it) == [k \in DOMAIN it \cap ValueKeys |-> it[k]]

SamePct(p, q) ==
  IF p = Null \/ q = Null THEN p = q
  ELSE p[1].den # 0 /\ q[1].den # 0 /\ p[1].num * q[1].den = q[1].num * p[1].den

\* C20: an item without fragments gets the four values that an item
\* whose only fragment holds its top-level values gets.
C20_NoEntitiesAsSingleFragment ==
  (agg_out.computed /\ ~HasEntities(agg_item)) =>
    LET v == agg_out.value
        w == aggregate_entities([entities |-> <<TopLevelFragment(agg_item)>>])
    IN /\ v.downloads = w.downloads
       /\ v.prev_downloads = w.prev_downloads
       /\ v.delta = w.delta
       /\ SamePct(v.pct_change, w.pct_change)

\* C21: aggregate_entities returns a number, never null, in each of the
\* four values, whatever raw fields of the item are absent or null.
C21_NeverNull ==
  agg_out.computed =>
    /\ agg_out.value.downloads \in Int
    /\ agg_out.value.prev_downloads \in Int
    /\ agg_out.value.delta \in Int
    /\ agg_out.value.pct_change # Null

\* ----------------------------------------- batch_summarize_descriptions
SumEnded == sum_pc \in {"apply", "returned", "raised"}
GotText == sum_result.kind = "text" /\ sum_result.text # <<>>

\* what each parse stage yields on a text: <<value>>, or <<>> for nothing
Yields(text) ==
  LET direct == JsonLoads(Cleaned(text))
      pairs == FindPairs(text)
  IN <<IF direct # <<>> /\ ~Falsy(direct[1]) THEN direct ELSE <<>>,
       LoadsMatch(FirstArray(text)),
       IF pairs # <<>> THEN <<JArr(pairs)>> ELSE <<>>>>

\* the summaries of a list that are for row k: objects with index k and a
\* text that is not empty
SuppliedFor(items, k) ==
  {j \in DOMAIN items :
     /\ items[j].t = "dict"
     /\ {"index", "summary"} \subseteq DOMAIN items[j].v
     /\ items[j].v.index = JInt(k)
     /\ ~Falsy(items[j].v.summary)}

\* the rows with the summaries of a list written to them
WithSummaries(rs, items) ==
  [k \in DOMAIN rs |->
     IF SuppliedFor(items, k) = {} THEN rs[k]
     ELSE LET j == CHOOSE x \in SuppliedFor(items, k) : \A y \in SuppliedFor(items, k) : y <= x
          IN [rs[k] EXCEPT !.app_description = items[j].v.summary]]

\* C22: the summaries applied are those of the first stage that yields
\* something; no stage is run after an earlier one yielded something; and
\* when no stage yields anything the rows are returned as they were.
C22_FirstStageWins ==
  (SumEnded /\ GotText) =>
    LET y == Yields(sum_result.text)
        yielding == {st \in 1 .. 3 : y[st] # <<>>}
    IN /\ \A st \in sum_tried : \A e \in 1 .. st - 1 : y[e] = <<>>
       /\ IF yielding = {}
            THEN sum_pc = "returned" /\ sum_rows = sum_rows0
            ELSE LET w == CHOOSE x \in yielding : \A z \in yielding : x <= z
                 IN /\ sum_stage = w
                    /\ sum_summaries = y[w][1]
                    /\ sum_pc = "returned" => sum_rows = WithSummaries(sum_rows0, y[w][1].v)

\* the pairs of stage 3 were applied after stages 1 and 2 yielded nothing
C22_Witness ==
  /\ sum_pc = "returned"
  /\ sum_tried = {1, 2, 3}
  /\ sum_stage = 3
  /\ sum_rows # sum_rows0

\* C23: batch_summarize_descriptions returns without raising whatever
\* call_gemini returned, and a row that got no valid summary keeps its
\* description.
C23_NeverRaises ==
  /\ sum_pc # "raised"
  /\ (sum_pc = "returned" /\ sum_summaries.t = "list") =>
       \A k \in DOMAIN sum_rows :
          SuppliedFor(sum_summaries.v, k) = {} => sum_rows[k] = sum_rows0[k]

\* the rows are as many as were passed and differ from them in
\* app_description only
C24_Frame ==
  /\ Len(sum_rows) = Len(sum_rows0)
  /\ \A k \in DOMAIN sum_rows :
       [sum_rows[k] EXCEPT !.app_description = sum_rows0[k].app_description] = sum_rows0[k]

\* a turn of the loop that changes the rows has an item whose index i is
\* in 1..len(rows) and whose text is not empty, and changes row i only
C24_Write ==
  (sum_pc = "apply" /\ sum_rows' # sum_rows) =>
    LET item == sum_summaries.v[sum_k]
    IN /\ item.v.index.t = "int"
       /\ item.v.index.v \in 1 .. Len(sum_rows)
       /\ ~Falsy(item.v.summary)
       /\ sum_rows' = [sum_rows EXCEPT ![item.v.index.v].app_description = item.v.summary]

\* C24: a summary with index i is written to the row at position i - 1
\* (counted from 0) only, a summary with an index outside 1..len(rows) or
\* with an empty text changes nothing, and only app_description changes.
C24_WriteByIndexOnly == []C24_Frame /\ [][C24_Write]_vars

\* six summaries were gone through: index 2 was written to the second
\* row, indices 0, 99 and -1 and an empty text left the first row alone
C24_Witness ==
  /\ sum_pc = "apply"
  /\ sum_k = 7
  /\ Len(sum_rows) = 2
  /\ sum_rows[2].app_description = JStr("S2")
  /\ sum_rows0[2].app_description = JStr("raw")
  /\ sum_rows[1] = sum_rows0[1]

\* ------------------------------------------------- phase 4 of main
\* the rows phase 3 builds for list n
BuiltRows(n) ==
  IF n = "advertisers" THEN AdvLoop(ItemsOf(n, api_data), 1, results, <<>>).rows
  ELSE MetricRows(ItemsOf(n, api_data), results)

\* what a summarizer task can leave of the rows it was given
SummaryOutcomes(rs) ==
  {IF a.kind = "list" THEN ApplySummaries(rs, a.data) ELSE rs : a \in SummaryAnswers}

\* the task of list n ends: until then its rows were as phase 3 built
\* them, it leaves them as one of its own outcomes, and the rows of the
\* other lists are as they were
C25_TaskEnds ==
  \A n \in Lists :
     (summarizer[n] = "running" /\ summarizer'[n] = "done") =>
       /\ rows[n] = BuiltRows(n)
       /\ rows'[n] \in SummaryOutcomes(rows[n])
       /\ \A m \in Lists \ {n} : rows'[m] = rows[m]

\* once every task has ended, each list's rows are an outcome of its own
\* task on the rows phase 3 built
C25_Final ==
  mpc \in {"phase5", "done"} =>
    \A n \in Lists : rows[n] \in SummaryOutcomes(BuiltRows(n))

QueryFailed(n) == mpc \notin {"start", "phase1"} /\ api_data[n] = None

\* nothing is built, summarized or written for a list whose query failed
C26_FailedListSkipped ==
  \A n \in Lists :
     QueryFailed(n) =>
       /\ rows[n] = <<>>
       /\ summarizer[n] = "none"
       /\ tables[TableOf[n]] = <<>>

\* the lists whose query gave items are assembled and summarized
C26_OthersProceed ==
  \A n \in Lists :
     (mpc = "done" /\ \E m \in Lists : QueryFailed(m)) =>
       /\ Len(rows[n]) = Len(ItemsOf(n, api_data))
       /\ rows[n] # <<>> => summarizer[n] = "done"

\* C26: when the query of one list fails, main builds no rows, runs no
\* summarizer and sends nothing to the table of that list, the other
\* lists are still assembled, summarized and written, and the run does
\* not abort.
C26_OneFailureIsLocal ==
  /\ C26_FailedListSkipped
  /\ C26_OthersProceed
  /\ (\E m \in Lists : QueryFailed(m)) => mpc # "raised"

\* --------------------------------------------------------- upsert_rows
\* C27: once upsert_rows has put a row into the table, the table holds no
\* row of the prior snapshot, whatever became of the delete request.
C27_FullReplace ==
  (\E k \in DOMAIN up_table : up_table[k] > 0) => \A k \in DOMAIN up_table : up_table[k] > 0

\* the rows of the batch requests of a log, one batch after the other
RECURSIVE BatchedRows(_)
BatchedRows(log) ==
  IF log = <<>> THEN <<>>
  ELSE (IF Head(log).op = "batch" THEN Head(log).rows ELSE <<>>) \o BatchedRows(Tail(log))

\* C28: for a list that is not empty the first request is the one delete
\* request; every batch has at most 50 rows; the batches, one after the
\* other, are the rows in their order, all of them once the call returns.
C28_DeleteThenBatches ==
  (up_rows # <<>> /\ up_pc \in {"batch", "rows", "returned"}) =>
    LET sent == BatchedRows(up_log)
    IN /\ up_log[1].op = "delete"
       /\ \A k \in 2 .. Len(up_log) :
            /\ up_log[k].op # "delete"
            /\ Len(up_log[k].rows) \in 1 .. batch_size
       /\ Len(sent) <= Len(up_rows)
       /\ sent = SubSeq(up_rows, 1, Len(sent))
       /\ up_pc = "returned" => sent = up_rows

\* 101 rows went out as batches of 50, 50 and 1 after the delete
C28_Witness ==
  /\ up_pc = "returned"
  /\ Len(up_rows) = 2 * batch_size + 1
  /\ Len(up_log) = 4
  /\ Len(up_log[2].rows) = batch_size
  /\ Len(up_log[4].rows) = 1

\* the number of rows of the insert requests of a log that were accepted
RECURSIVE AcceptedRows(_)
AcceptedRows(log) ==
  IF log = <<>> THEN 0
  ELSE (IF Head(log).op # "delete" /\ Head(log).ok THEN Len(Head(log).rows) ELSE 0)
       + AcceptedRows(Tail(log))

\* C29: after a rejected batch each of its rows is posted once, in
\* order, and then the next batch; after an accepted batch the next batch
\* follows; every batch is posted; the count is the rows of the accepted
\* batches plus the accepted rows, which are the rows the table got.
C29_RowByRowRetry ==
  (up_rows # <<>> /\ up_pc = "returned") =>
    /\ \A k \in DOMAIN up_log :
         up_log[k].op = "batch" =>
           LET n == IF up_log[k].ok THEN 0 ELSE Len(up_log[k].rows)
           IN /\ k + n <= Len(up_log)
              /\ \A j \in 1 .. n :
                   up_log[k + j].op = "row" /\ up_log[k + j].rows = <<up_log[k].rows[j]>>
              /\ k + n < Len(up_log) => up_log[k + n + 1].op = "batch"
    /\ BatchedRows(up_log) = up_rows
    /\ total_inserted = AcceptedRows(up_log)
    /\ total_inserted = Cardinality({k \in DOMAIN up_table : up_table[k] > 0})

\* of 101 rows the first batch was rejected and two of its rows again,
\* the other batches were accepted: 48 + 50 + 1 rows were inserted
C29_Witness ==
  /\ up_pc = "returned"
  /\ Len(up_rows) = 2 * batch_size + 1
  /\ ~up_log[2].ok
  /\ Len(up_log) = batch_size + 4
  /\ total_inserted = 2 * batch_size - 1

\* ------------------------------------------------------------- startup
\* the credentials a program cannot run without
Required ==
  IF prog = "sensortower"
    THEN {"SENSORTOWER_API_KEY", "SUPABASE_URL", "SUPABASE_SERVICE_ROLE_KEY"}
    ELSE {"PH_API_KEY", "PH_API_SECRET", "SUPABASE_URL", "SUPABASE_SERVICE_ROLE_KEY"}

\* C30: with a required credential missing main sends no request and
\* ends in sys.exit(1) straight from its checks; with all of them set it
\* does not end there, GEMINI_API_KEY set or not; without GEMINI_API_KEY
\* nothing is sent to the model and nothing is summarized.
C30_MissingCredentialIsFatal ==
  /\ ~(Required \subseteq env) =>
       /\ requests_sent = {}
       /\ start_pc \in {"start", "check_supabase", "exit_config"}
       /\ exit_status = IF start_pc = "exit_config" THEN 1 ELSE -1
  /\ Required \subseteq env => start_pc # "exit_config"
  /\ "GEMINI_API_KEY" \notin env => "gemini" \notin requests_sent /\ ~summarized

\* the Sensor Tower run has its own key but not the storage key: it
\* ended with status 1 and sent nothing
C30_Witness ==
  /\ prog = "sensortower"
  /\ "SENSORTOWER_API_KEY" \in env
  /\ "SUPABASE_SERVICE_ROLE_KEY" \notin env
  /\ start_pc = "exit_config"
  /\ exit_status = 1
  /\ requests_sent = {}

\* a Sensor Tower run without GEMINI_API_KEY went through to its end
C30_RunWithoutGeminiKey ==
  /\ prog = "sensortower"
  /\ "GEMINI_API_KEY" \notin env
  /\ start_pc = "done"
  /\ exit_status = 0
  /\ requests_sent = {"supabase", "sensortower"}

\* ------------------------------------------------------------ call_gemini
GmPosts == {i \in DOMAIN gm_log : gm_log[i].op = "post"}
GmReturned == gm_pc = "returned"

\* the reply to the request logged at position i
GmReplyAt(i) == gm_net[gm_log[i].n + 1]

\* C31: call_gemini sends at most 3 requests; a 429/500/502/503/504 on
\* attempt a is followed by a sleep of 3 * 2^a seconds and, while attempts
\* remain, by the next request; an exception is followed by the next
\* request while attempts remain; any other status than 200 is the last
\* thing the call does and it returns None; with the attempts used up it
\* returns None; it ends only by returning None or a text; without the
\* key it sends nothing.
C31_BoundedRetriesNoRaise ==
  /\ Cardinality(GmPosts) <= retries
  /\ "GEMINI_API_KEY" \notin env => gm_log = <<>> /\ (GmReturned => gm_ret = NoResult)
  /\ GmReturned => gm_ret \in {NoResult, TextResult("T")}
  /\ ~GmReturned => gm_ret = [kind |-> "unset"]
  /\ \A i \in GmPosts :
       LET r == GmReplyAt(i)
           a == gm_log[i].n
       IN /\ r.code \in GeminiRetryStatuses =>
               /\ i < Len(gm_log)
               /\ gm_log[i + 1] = [op |-> "sleep", n |-> 3 * 2 ^ a]
               /\ a < retries - 1 /\ GmReturned =>
                    i + 1 < Len(gm_log) /\ gm_log[i + 2] = [op |-> "post", n |-> a + 1]
          /\ r.code = 0 /\ a < retries - 1 /\ GmReturned =>
               \E j \in GmPosts : j > i /\ gm_log[j].n = a + 1
          /\ r.code \in GeminiOtherStatuses =>
               /\ i = Len(gm_log)
               /\ GmReturned
               /\ gm_ret = NoResult
  /\ GmReturned /\ gm_attempt = retries => gm_ret = NoResult /\ Cardinality(GmPosts) = retries

\* a 429, then an exception, then a 503: three requests, sleeps of 3 s,
\* 3 s and 12 s, and None
C31_Witness ==
  /\ GmReturned
  /\ gm_ret = NoResult
  /\ gm_log = <<[op |-> "post", n |-> 0], [op |-> "sleep", n |-> 3],
                [op |-> "post", n |-> 1], [op |-> "sleep", n |-> 3],
                [op |-> "post", n |-> 2], [op |-> "sleep", n |-> 12]>>
  /\ gm_net[1].code = 429
  /\ gm_net[2].code = 0
  /\ gm_net[3].code = 503

\* a 404 on the second request ended the call there
C31_ClientErrorReached ==
  /\ GmReturned
  /\ Cardinality(GmPosts) = 2
  /\ gm_net[2].code = 404
  /\ gm_ret = NoResult

\* ------------------------------------------------------ st_get backoffs
\* C32: the sleep after a 429 on attempt n (n = 1..5, `attempt` + 1) is
\* 10 * n seconds, longer than the sleep after any other failure (3 s
\* after another status, 5 s after an exception); and a sleep is taken
\* only when another attempt follows, none after the fifth attempt.
C32_BackoffOnlyBetweenAttempts ==
  \A t \in GetThreads :
    pc[t] = "sg_backoff" =>
      /\ status[t].code = 429 => backoff[t] = 10 * (attempt[t] + 1) /\ backoff[t] > 5
      /\ status[t].code # 429 => backoff[t] = IF status[t].code \in {0, 200} THEN 5 ELSE 3
      /\ attempt[t] < LastAttempt

\* the sleeps have the stated lengths wherever one is taken
C32_BackoffLengths ==
  \A t \in GetThreads :
    pc[t] = "sg_backoff" =>
      /\ status[t].code = 429 => backoff[t] = 10 * (attempt[t] + 1) /\ backoff[t] > 5
      /\ status[t].code # 429 =>
           /\ backoff[t] = IF status[t].code \in {0, 200} THEN 5 ELSE 3
           /\ attempt[t] < LastAttempt

\* the fifth attempt was answered 429 and the call sleeps 50 s before it
\* returns None
C32_SleepAfterLastAttempt ==
  \E t \in GetThreads :
    /\ pc[t] = "sg_backoff"
    /\ attempt[t] = LastAttempt
    /\ status[t].code = 429
    /\ backoff[t] = 50

\* ------------------------------------------------ termination, the locks
Waiting(t) == pc[t] \in {"rl_enter", "rl_hold"}

\* no thread holds _st_rate_lock and _cache_lock at the same time
LocksNeverNested ==
  /\ st_rate_lock # MainThread
  /\ st_rate_lock # NoThread => cache_lock # st_rate_lock

\* parallel_lookup_apps has returned: every lookup it submitted had
\* finished, no thread is inside _rate_limited_wait or st_get, and both
\* locks are free
AllReturned ==
  /\ dpc = "returned"
  /\ task = <<>>
  /\ \A t \in Threads : pc[t] = "idle"
  /\ st_rate_lock = NoThread
  /\ cache_lock = NoThread

\* C33: under every fair schedule and every behaviour of the network the
\* run comes to the state in which parallel_lookup_apps has returned,
\* all its lookups have finished and no _rate_limited_wait call is
\* still open; and no thread ever holds _st_rate_lock and _cache_lock
\* at the same time.
C33_TerminatesLocksNeverNested ==
  /\ []LocksNeverNested
  /\ [](dpc = "returned" => AllReturned)
  /\ <>[]AllReturned

\* one worker is in its fifth attempt and holds the rate lock, another
\* waits for that lock, and a third thread is free to take the cache lock
C33_Witness ==
  \E t, u \in Threads :
    /\ t # u
    /\ st_rate_lock = t
    /\ attempt[t] = LastAttempt
    /\ pc[u] = "rl_enter"
    /\ cache_lock = NoThread
    /\ dpc = "pl_collect"

\* ------------------------------------- the returned mapping and the cache
\* the lookups of the running call for an identifier
TasksFor(id) == {i \in Tasks : task[i].aid = id}

\* parallel_lookup_apps returns in this step
PlReturns == dpc # "returned" /\ dpc' = "returned"

\* C34: when parallel_lookup_apps returns, the record it returns for an
\* identifier none of whose lookups raised is the record _app_cache
\* holds for that identifier, a repeated identifier included.
C34_ReturnedEqualsCache ==
  [][PlReturns =>
       \A id \in DOMAIN results' :
         (\A i \in TasksFor(id) : ~task[i].raised) =>
           id \in DOMAIN app_cache' /\ results'[id] = app_cache'[id]]_vars

\* the same for the identifiers that had at most one lookup in the call
C34_EqualWithoutRepeats ==
  [][PlReturns =>
       \A id \in DOMAIN results' :
         (Cardinality(TasksFor(id)) <= 1 /\ \A i \in TasksFor(id) : ~task[i].raised) =>
           id \in DOMAIN app_cache' /\ results'[id] = app_cache'[id]]_vars

\* two lookups of one identifier have both been collected; the mapping
\* holds the record of one and the cache the different record of the other
C34_MappingDiffersFromCache ==
  \E i, j \in Tasks :
    /\ BothMissed(i, j)
    /\ dpc = "pl_collect"
    /\ \A k \in Tasks : task[k].collected /\ ~task[k].raised
    /\ results[task[i].aid] = task[i].ret
    /\ app_cache[task[i].aid] = task[j].ret
    /\ task[i].ret # task[j].ret

\* -------------------------------------------- a summarizer task that fails
\* two rows that differ in their description at most
SameButDescription(r1, r2) ==
  [r1 EXCEPT !.app_description = ""] = [r2 EXCEPT !.app_description = ""]

\* future.result of the list's task ended in an exception
ResultFailed(n) == p4_got[n] \in {"exception", "timeout"}

\* the lists phase 5 has to write, in its order
ToWrite == SelectSeq(UpsertOrder, LAMBDA n : P4Built(n) # <<>>)

C35_State ==
  /\ mpc # "raised"
  /\ \A n \in Lists :
       /\ Len(rows[n]) = Len(P4Built(n))
       /\ \A k \in 1 .. Len(rows[n]) : SameButDescription(rows[n][k], P4Built(n)[k])
       /\ summarizer[n] = "done" => rows[n] \in SummaryOutcomes(P4Built(n))
       /\ summarizer[n] \in {"none", "running"} => rows[n] = P4Built(n)
  /\ mpc = "done" => p4_calls = ToWrite

C35_Write ==
  p4_calls' # p4_calls =>
    LET n == UpsertOrder[step]
    IN /\ p4_calls' = Append(p4_calls, n)
       /\ rows[n] # <<>>
       /\ tables'[TableOf[n]] \in {<<>>, rows[n]}
       /\ \A t \in TableNames \ {TableOf[n]} : tables'[t] = tables[t]

\* C35: a summarizer task that raises, or that outlasts the 120 s of
\* future.result, makes no exception leave phase 4; its list keeps its
\* rows in number and order (all but the descriptions as phase 3 built
\* them) and upsert_rows is called for it in phase 5 like for the others,
\* whose rows are an outcome of their own task alone.
C35_FailedTaskIsLocal == []C35_State /\ [][C35_Write]_vars

\* the run ended: the downloads task had raised, the result of the
\* growth task had timed out, the advertiser task gave its result; the
\* three tables hold the rows of their lists
C35_Witness ==
  /\ mpc = "done"
  /\ p4_got = [downloads |-> "exception", growth |-> "timeout", delta |-> "none",
               advertisers |-> "result"]
  /\ p4_calls = <<"downloads", "growth", "advertisers">>
  /\ \A n \in {"downloads", "growth", "advertisers"} :
       rows[n] # <<>> /\ tables[TableOf[n]] = rows[n]
  /\ rows["growth"] # P4Built("growth")
  /\ rows["advertisers"] # P4Built("advertisers")

\* ------------------------------------------------ the advertiser fallback
\* app.get("name", app.get("humanized_name", "Unknown"))
InlineName(app) == Get(app, "name", Get(app, "humanized_name", "Unknown"))

\* the advertiser row of item app holds the looked-up name, publisher and
\* icon, or the item's own where the lookup gave "Unknown" or no icon
AdvRowFrom(row, app, info) ==
  /\ row.app_name = IF info.name = "Unknown" THEN InlineName(app) ELSE info.name
  /\ row.publisher =
       IF info.publisher = "Unknown" THEN Get(app, "publisher_name", "Unknown") ELSE info.publisher
  /\ row.icon_url = IF info.icon_url = "" THEN Get(app, "icon_url", "") ELSE info.icon_url

SubsOf(d) == IF d.kind = "dict" THEN d.data.sub_apps ELSE <<>>

\* the positions of the sub-apps of a platform
OfPlatform(subs, os) == {k \in 1 .. Len(subs) : subs[k].os = os}

Least(S) == CHOOSE k \in S : \A j \in S : k <= j

\* C37: a resolution makes at most two st_get calls, the unified one
\* first; a second one goes to the platform endpoint of the first iOS
\* sub-app when there is an iOS sub-app, of the first Android sub-app
\* otherwise; there is none when the unified call failed or no sub-app
\* has an identifier.
C37_UnifiedThenOnePlatformCall ==
  LET subs == SubsOf(rs_data)
      ios == OfPlatform(subs, "ios")
      android == OfPlatform(subs, "android")
  IN /\ Len(rs_calls) <= 2
     /\ rs_calls # <<>> => rs_calls[1] = [endpoint |-> "unified", id |-> "A"]
     /\ Len(rs_calls) = 2 =>
          /\ rs_data.kind = "dict"
          /\ ios \cup android # {}
          /\ LET k == IF ios # {} THEN Least(ios) ELSE Least(android)
             IN rs_calls[2] = [endpoint |-> subs[k].os, id |-> subs[k].id] /\ subs[k].id # ""
     /\ (rs_data.kind # "dict" \/ \A k \in 1 .. Len(subs) : subs[k].id = "") => Len(rs_calls) <= 1
     /\ rs_pc = "returned" => rs_calls # <<>>

\* an Android sub-app comes before two iOS sub-apps: the platform call
\* went to the first of the iOS ones
C37_Witness ==
  /\ rs_pc = "returned"
  /\ rs_data.kind = "dict"
  /\ Len(SubsOf(rs_data)) >= 2
  /\ SubsOf(rs_data)[1] = [os |-> "android", id |-> "x1"]
  /\ SubsOf(rs_data)[2] = [os |-> "ios", id |-> "x2"]
  /\ rs_calls = <<[endpoint |-> "unified", id |-> "A"], [endpoint |-> "ios", id |-> "x2"]>>

\* the first iOS sub-app has no identifier and an Android one has: no
\* platform call was made
C37_NoCallWithoutIosId ==
  /\ rs_pc = "returned"
  /\ rs_data.kind = "dict"
  /\ SubsOf(rs_data) = <<[os |-> "ios", id |-> ""], [os |-> "android", id |-> "x1"]>>
  /\ Len(rs_calls) = 1

\* ---------------------------------------------- the Product Hunt run
PhOrder == <<"validate", "auth", "fetch", "delete", "insert">>

PhDid(req) == \E k \in 1 .. Len(ph_log) : ph_log[k].req = req

PhFailed(req) == \E k \in 1 .. Len(ph_log) : ph_log[k].req = req /\ ~ph_log[k].ok

PhFetched == ph_log[CHOOSE k \in 1 .. Len(ph_log) : ph_log[k].req = "fetch"].posts

\* C38: the run authenticates, fetches, deletes and inserts in this
\* order, each step only after the one before succeeded; a failed
\* authentication or fetch leaves the table as it was; a failed delete
\* ends the run with status 1 and nothing is inserted; after a complete
\* run the table holds exactly the fetched products, ranked 1..n in the
\* order of the reply.
C38_StepsInOrderTableReplaced ==
  /\ Len(ph_log) <= Len(PhOrder)
  /\ \A k \in 1 .. Len(ph_log) :
       /\ ph_log[k].req = PhOrder[k]
       /\ k > 1 => ph_log[k - 1].ok
  /\ (PhFailed("auth") \/ PhFailed("fetch")) =>
       /\ ph_pc = "exit1"
       /\ ~PhDid("delete")
       /\ ph_table = ph_old
  /\ PhFailed("delete") => ph_pc = "exit1" /\ ~PhDid("insert")
  /\ ph_pc = "done" =>
       /\ Len(ph_table) = Len(PhFetched)
       /\ \A i \in 1 .. Len(ph_table) :
            /\ ph_table[i].row = PhRow(PhFetched[i], i)
            /\ ph_table[i].row.rank = i

\* a complete run over a table that held two rows stored two products
C38_Witness ==
  /\ ph_pc = "done"
  /\ ph_old = PhOldRows
  /\ Len(ph_table) = 2
  /\ ph_table[1].row.name = "Q"
  /\ ph_table[2].row.name = "P"

\* ---------------------------------------------- the items of the feed
Given(x) == x \notin {"", RssNull}

HasViewLink(it) == \E k \in 1 .. Len(it.description) : it.description[k] = "View on Product Hunt"

\* C39: the feed has one item per product, in the order of the input,
\* none for an empty list; an item links to the website when there is
\* one and to the Product Hunt page otherwise, its guid is the Product
\* Hunt page when there is one and the link otherwise, and it has the
\* "View on Product Hunt" link only when there is a Product Hunt page
\* and the item does not link to it already.
C39_OneItemPerProduct ==
  /\ Len(rss_items) <= Len(rss_products)
  /\ rss_pc = "written" => Len(rss_items) = Len(rss_products)
  /\ \A i \in 1 .. Len(rss_items) :
       LET p == rss_products[i]
           it == rss_items[i]
       IN /\ it.title = <<p.rank, p.name, p.tagline>>
          /\ it.link = IF Given(p.website_url) THEN p.website_url ELSE p.url
          /\ it.guid = IF Given(p.url) THEN p.url ELSE it.link
          /\ HasViewLink(it) <=> Given(p.url) /\ p.url # it.link

\* a product with its own website and one whose website is the Product
\* Hunt page: the first item has the extra link, the second has not
C39_Witness ==
  /\ rss_pc = "written"
  /\ Len(rss_items) = 2
  /\ rss_products[1].rank = 2
  /\ rss_products[2].rank = 1
  /\ rss_items[1].link = "site" /\ rss_items[1].guid = "ph" /\ HasViewLink(rss_items[1])
  /\ rss_items[2].link = "ph" /\ rss_items[2].guid = "ph" /\ ~HasViewLink(rss_items[2])

CacheAccess == {"check", "write"}
OutsideLock == {"start", "unified", "unified_wait", "platform", "platform_wait", "store"}

\* C10: a task checks, reads or writes _app_cache only while it holds
\* _cache_lock, and so does parallel_lookup_apps; no task holds the lock
\* while its st_get call (rate-limiter wait, request, backoff) is under way.
C10_CacheUnderLockNetworkOutside ==
  /\ \A i \in Tasks : task[i].pc \in CacheAccess => cache_lock = i
  /\ \A i \in Tasks : task[i].pc \in OutsideLock => cache_lock # i
  /\ dpc = "pl_check" <=> cache_lock = MainThread

\* two lookups are waiting for the network at the same time while a third
\* party is free to take the cache lock
C10_Witness ==
  \E i, j \in Tasks :
    /\ i # j
    /\ task[i].aid # task[j].aid
    /\ task[i].pc = "unified_wait"
    /\ task[j].pc = "platform_wait"
    /\ cache_lock = NoThread

====
